---------------------------- MODULE Spec2Model ----------------------------
(***************************************************************************)
(* A model of the gateway's request execution pipeline                     *)
(* (POST /v1/actions/execute): HMAC authentication, tenant resolution,     *)
(* schema validation, idempotency cache, action dispatch, outbound HTTP    *)
(* with retry, audit logging.                                              *)
(*                                                                         *)
(* Representation.                                                         *)
(*  - A string the program concatenates or searches is a sequence of       *)
(*    tokens.  The tokens used are prefix-free ("echo", "jobtread.",       *)
(*    "query", ":", "DB", "k1", ...), so two token sequences are equal     *)
(*    exactly when the strings they spell are equal.                       *)
(*  - A JSON value is a record tagged by t: number, string, object, array, *)
(*    null.                                                                *)
(*    An object holds its properties in insertion order.                   *)
(*  - An absent header, an unset environment variable and an undefined     *)
(*    local are the empty string "" (or <<>> for token sequences, 0 for    *)
(*    the trace id): each is falsy in the program.                         *)
(*  - Node runs one callback at a time: an action of the model is the code *)
(*    a request runs between two suspensions on I/O.                       *)
(***************************************************************************)
EXTENDS Integers, Sequences, FiniteSets, TLC

\* ------------------------------------------------------------------------
\* Bounds of the model
\* ------------------------------------------------------------------------

\* Number of requests the gateway receives in a behaviour of Spec.
MaxRequests == 2
\* Number of requests the gateway receives in a behaviour of SpecReplay.
MaxReplays == 3

\* Number of bytes of a digest (32 for SHA-256; the comparison is per byte).
DigestBytes == 2

\* Days the clock advances in a behaviour of SpecLogs.
MaxDays == 2
\* Length the stored log list reaches in a behaviour of SpecLogs.
MaxLogLen == 3
\* Largest maxRetries option httpRequest is called with in SpecLib.
MaxM == 3

\* ------------------------------------------------------------------------
\* JSON values
\* ------------------------------------------------------------------------

JNum(n) == [t |-> "number", n |-> n]
JStr(s) == [t |-> "string", s |-> s]
JObj(f) == [t |-> "object", f |-> f]
JArr(e) == [t |-> "array", e |-> e]
JNull == [t |-> "null"]
Prop(k, v) == [k |-> k, v |-> v]

\* value && typeof value === 'object'
IsObjectLike(v) == v.t \in {"object", "array"}

\* Object.entries: an object's properties, an array's items under their index.
Entries(v) ==
    IF v.t = "object" THEN v.f
    ELSE IF v.t = "array" THEN [i \in 1..Len(v.e) |-> Prop(ToString(i - 1), v.e[i])]
    ELSE <<>>

hasOwnProperty(v, key) ==
    v.t = "object" /\ \E i \in 1..Len(v.f) : v.f[i].k = key

GetProp(v, key) == v.f[CHOOSE i \in 1..Len(v.f) : v.f[i].k = key].v

\* { ...a, ...b } : b's properties override a's, a's keep their place.
Spread(a, b) ==
    LET kept == [i \in 1..Len(a) |->
                    IF \E j \in 1..Len(b) : b[j].k = a[i].k
                    THEN Prop(a[i].k, (b[CHOOSE j \in 1..Len(b) : b[j].k = a[i].k]).v)
                    ELSE a[i]]
        IsNew(p) == ~ \E i \in 1..Len(a) : a[i].k = p.k
    IN  kept \o SelectSeq(b, IsNew)

startsWith(s, prefix) ==
    Len(s) >= Len(prefix) /\ SubSeq(s, 1, Len(prefix)) = prefix

endsWith(s, suffix) ==
    Len(s) >= Len(suffix) /\ SubSeq(s, Len(s) - Len(suffix) + 1, Len(s)) = suffix

\* s.includes(part)
includes(s, part) ==
    \E i \in 0..(Len(s) - Len(part)) : SubSeq(s, i + 1, i + Len(part)) = part

\* lines.join('\n')
RECURSIVE JoinLines(_)
JoinLines(lines) ==
    IF lines = <<>> THEN <<>>
    ELSE IF Len(lines) = 1 THEN lines[1]
    ELSE lines[1] \o <<"\n">> \o JoinLines(Tail(lines))

\* ------------------------------------------------------------------------
\* lib/lint: business rules of a JobTread Pave query
\* ------------------------------------------------------------------------

PageSizeLimit == 100

PageSizeError(path, size) ==
    <<"Page size limit exceeded: ">> \o path
        \o <<".size = ", ToString(size),
             ". Maximum allowed is 100. Please use pagination for larger result sets.">>

ContactsEmailError(path) ==
    <<"contacts.nodes.email is not supported due to tenant schema limitations. ",
      "Use contacts.edges.node.email instead. Found at: ">> \o path \o <<".email">>

UnitPriceNote(path) ==
    <<"unitPrice used at ">> \o path
        \o <<" without unitCost. ",
             "Consider using unitCost as it is the authoritative source for pricing data.">>

\* What a walk has pushed so far: the errors and the notes, in push order, and
\* whether it was cut short by a TypeError.
Pushed(errors, notes) == [errors |-> errors, notes |-> notes, threw |-> FALSE]
Then(first, second) ==
    IF first.threw THEN first
    ELSE [errors |-> first.errors \o second.errors, notes |-> first.notes \o second.notes,
          threw |-> second.threw]

\* obj.hasOwnProperty(...) on an object whose own property of that name is not
\* a function (no JSON value is one): the call throws.
NotAFunction == <<"obj.hasOwnProperty is not a function">>
ThrewTypeError == [errors |-> <<>>, notes |-> <<>>, threw |-> TRUE]

RECURSIVE checkObject(_, _)
RECURSIVE checkEntries(_, _)
RECURSIVE checkItems(_, _, _)

\* The errors and notes checkObject pushes for obj and everything below it.
checkObject(obj, path) ==
    IF ~IsObjectLike(obj) THEN Pushed(<<>>, <<>>)
    ELSE IF hasOwnProperty(obj, "hasOwnProperty") THEN ThrewTypeError
    ELSE
      LET rule1 == IF includes(path, <<"contacts", ".", "nodes">>)
                      /\ hasOwnProperty(obj, "email")
                   THEN <<ContactsEmailError(path)>> ELSE <<>>
          rule2 == IF hasOwnProperty(obj, "size")
                      /\ GetProp(obj, "size").t = "number"
                      /\ GetProp(obj, "size").n > PageSizeLimit
                   THEN <<PageSizeError(path, GetProp(obj, "size").n)>> ELSE <<>>
          rule3 == IF hasOwnProperty(obj, "unitPrice") /\ ~hasOwnProperty(obj, "unitCost")
                   THEN <<UnitPriceNote(path)>> ELSE <<>>
      IN  Then(Pushed(rule1 \o rule2, rule3), checkEntries(Entries(obj), path))

\* `${path}.${key}`, or key at the root
ChildPath(path, key) == IF path # <<>> THEN path \o <<".", key>> ELSE <<key>>

\* for (const [key, value] of Object.entries(obj))
checkEntries(entries, path) ==
    IF entries = <<>> THEN Pushed(<<>>, <<>>)
    ELSE
      Then(IF entries[1].v.t = "array"
           THEN checkItems(entries[1].v.e, 1, ChildPath(path, entries[1].k))
           ELSE IF IsObjectLike(entries[1].v)
           THEN checkObject(entries[1].v, ChildPath(path, entries[1].k))
           ELSE Pushed(<<>>, <<>>),
           checkEntries(Tail(entries), path))

\* value.forEach((item, index) => checkObject(item, `${newPath}[${index}]`))
checkItems(items, i, newPath) ==
    IF i > Len(items) THEN Pushed(<<>>, <<>>)
    ELSE Then(checkObject(items[i], newPath \o <<"[", ToString(i - 1), "]">>),
              checkItems(items, i + 1, newPath))

\* What lintJobTreadQuery returns, or, with threw, that it threw instead.
LintResult(pushed) ==
    [valid |-> ~pushed.threw /\ Len(pushed.errors) = 0, notes |-> pushed.notes,
     errors |-> pushed.errors, threw |-> pushed.threw]

lintJobTreadQuery(pave) == LintResult(checkObject(pave, <<>>))

\* ------------------------------------------------------------------------
\* State
\* ------------------------------------------------------------------------

VARIABLES
    env,                \* process.env, fixed when the process starts
    idempotencyCache,   \* Map<action:brand:idempotencyKey, response>
    logs,               \* lib/logs: the in-memory audit entries, in push order
    req,                \* the requests: input, handler locals, position, response
    nextTraceId,        \* the next value createTraceId returns
    now,                \* the clock, in days
    lib                 \* the latest direct call of a library function

vars == <<env, idempotencyCache, logs, req, nextTraceId, now, lib>>


\* ------------------------------------------------------------------------
\* Environment
\* ------------------------------------------------------------------------

GoodEnv ==
    [HMAC_SECRET        |-> "hmac-secret",
     GATEWAY_KEY_DB     |-> "gateway-key-db",
     GATEWAY_KEY_CI     |-> "gateway-key-ci",
     JT_GRANT_KEY_DB    |-> "grant-key-db",
     JT_GRANT_KEY_CI    |-> "grant-key-ci",
     ALLOW_HOSTS        |-> << <<"hooks", "make", "com">> >>,
     LOG_RETENTION_DAYS |-> ""]

\* The configurations the process is started with: the complete one, and the
\* complete one with one variable unset or unusable.
EnvConfigs ==
    { GoodEnv,
      [GoodEnv EXCEPT !.HMAC_SECRET = ""],
      [GoodEnv EXCEPT !.GATEWAY_KEY_CI = ""],
      [GoodEnv EXCEPT !.JT_GRANT_KEY_DB = ""],
      [GoodEnv EXCEPT !.ALLOW_HOSTS = <<>>],
      [GoodEnv EXCEPT !.LOG_RETENTION_DAYS = "abc"] }

\* ------------------------------------------------------------------------
\* lib/auth
\* ------------------------------------------------------------------------

SignaturePrefix == [lit |-> "sha256="]

\* HMAC-SHA256 as a perfect keyed hash: the digest names its key and message,
\* two digests are equal exactly when key and message are.
HmacSha256(secret, body) == [key |-> secret, msg |-> body]

\* digest('hex'): two hex characters per byte.
HexDigest(digest) == [i \in 1..(2 * DigestBytes) |-> [hex |-> i, of |-> digest]]

IsHexChar(c) == "hex" \in DOMAIN c

\* Buffer.from(text, 'hex'): one byte per pair of hex characters, stopping at
\* the first pair that is not hex; a trailing single character is dropped.
RECURSIVE BufferFromHex(_)
BufferFromHex(text) ==
    IF Len(text) < 2 \/ ~IsHexChar(text[1]) \/ ~IsHexChar(text[2]) THEN <<>>
    ELSE << <<text[1], text[2]>> >> \o BufferFromHex(SubSeq(text, 3, Len(text)))

\* providedBuffer.length === expectedBuffer.length && timingSafeEqual(...)
BuffersEqual(providedBuffer, expectedBuffer) ==
    IF Len(providedBuffer) # Len(expectedBuffer) THEN FALSE
    ELSE providedBuffer = expectedBuffer

verifyHmacSignature(body, signature, secret) ==
    IF signature = <<>> \/ Head(signature) # SignaturePrefix THEN FALSE
    ELSE BuffersEqual(BufferFromHex(Tail(signature)),
                      BufferFromHex(HexDigest(HmacSha256(secret, body))))

GatewayKeysError == <<"Gateway keys not configured in environment variables">>

\* [threw, msg] or [threw, brand]; brand <<>> is null.
getBrandFromGatewayKey(key) ==
    IF env.GATEWAY_KEY_DB = "" \/ env.GATEWAY_KEY_CI = ""
    THEN [threw |-> TRUE, msg |-> GatewayKeysError, brand |-> <<>>]
    ELSE IF key = env.GATEWAY_KEY_DB THEN [threw |-> FALSE, msg |-> <<>>, brand |-> <<"DB">>]
    ELSE IF key = env.GATEWAY_KEY_CI THEN [threw |-> FALSE, msg |-> <<>>, brand |-> <<"CI">>]
    ELSE [threw |-> FALSE, msg |-> <<>>, brand |-> <<>>]

GrantKeyOrThrow(brand, grantKey) ==
    IF grantKey = ""
    THEN [threw |-> TRUE, grantKey |-> "",
          msg |-> <<"JobTread grant key not configured for brand: ">> \o brand]
    ELSE [threw |-> FALSE, grantKey |-> grantKey, msg |-> <<>>]

getGrantKeyForBrand(brand) ==
    GrantKeyOrThrow(brand, IF brand = <<"DB">> THEN env.JT_GRANT_KEY_DB
                           ELSE env.JT_GRANT_KEY_CI)

\* ------------------------------------------------------------------------
\* lib/allowlist
\* ------------------------------------------------------------------------

Schemes == {"https://", "http://"}

\* A URL is <<scheme>> \o host labels \o <<path>>; new URL(url) throws on
\* anything else.
UrlParses(url) ==
    Len(url) >= 2 /\ url[1] \in Schemes /\ url[2] \notin Schemes

IsPathToken(tok) == tok \in {"/", "/abc123"}

\* new URL(url).hostname, as its labels
RECURSIVE HostLabels(_)
HostLabels(rest) ==
    IF rest = <<>> \/ IsPathToken(rest[1]) THEN <<>>
    ELSE <<rest[1]>> \o HostLabels(Tail(rest))

Hostname(url) == HostLabels(Tail(url))

\* hostname.endsWith('.' + allowedHost), on labels
EndsWithDot(hostname, allowedHost) ==
    Len(hostname) > Len(allowedHost) /\ endsWith(hostname, allowedHost)

AllowHostsError == <<"ALLOW_HOSTS environment variable not configured">>

\* The loop over allowedHosts: exact match, subdomain match, reverse match.
HostMatches(hostname, allowedHosts) ==
    \E i \in 1..Len(allowedHosts) :
        \/ hostname = allowedHosts[i]
        \/ EndsWithDot(hostname, allowedHosts[i])
        \/ EndsWithDot(allowedHosts[i], hostname)

isHostAllowed(url) ==
    IF env.ALLOW_HOSTS = <<>> THEN [threw |-> TRUE, msg |-> AllowHostsError, allowed |-> FALSE]
    ELSE IF ~UrlParses(url) THEN [threw |-> FALSE, msg |-> <<>>, allowed |-> FALSE]
    ELSE [threw |-> FALSE, msg |-> <<>>,
          allowed |-> HostMatches(Hostname(url), env.ALLOW_HOSTS)]

\* ------------------------------------------------------------------------
\* lib/logs
\* ------------------------------------------------------------------------

DefaultRetentionDays == 60

\* parseInt(text, 10) of the values LOG_RETENTION_DAYS takes here.
ParseInt(text) ==
    IF text = "60" THEN [nan |-> FALSE, n |-> 60]
    ELSE IF text = "1" THEN [nan |-> FALSE, n |-> 1]
    ELSE IF text = "0" THEN [nan |-> FALSE, n |-> 0]
    ELSE [nan |-> TRUE, n |-> 0]

InvalidTimeValue == <<"Invalid time value">>

RECURSIVE PruneFromSkipping(_, _, _)
RECURSIVE PruneFrom(_, _, _)

\* A faulty loop: i advances after a splice as well, so the entry that moved
\* into place i is not looked at.
PruneFromSkipping(list, i, cutoffTimestamp) ==
    IF i > Len(list) THEN list
    ELSE IF list[i].timestamp < cutoffTimestamp
         THEN PruneFromSkipping(SubSeq(list, 1, i - 1) \o SubSeq(list, i + 1, Len(list)),
                                i + 1, cutoffTimestamp)
         ELSE PruneFromSkipping(list, i + 1, cutoffTimestamp)

\* while (i < logs.length) { if (logs[i].timestamp < cutoff) splice(i,1) else i++ }
PruneFrom(list, i, cutoffTimestamp) ==
    IF i > Len(list) THEN list
    ELSE IF list[i].timestamp < cutoffTimestamp
         THEN PruneFrom(SubSeq(list, 1, i - 1) \o SubSeq(list, i + 1, Len(list)),
                        i, cutoffTimestamp)
         ELSE PruneFrom(list, i + 1, cutoffTimestamp)

\* addLog on the list `list` at time `at`: the list it leaves, and whether it
\* threw (toISOString of an invalid date throws RangeError after the push).
RetentionDays ==
    IF env.LOG_RETENTION_DAYS = "" THEN [nan |-> FALSE, n |-> DefaultRetentionDays]
    ELSE ParseInt(env.LOG_RETENTION_DAYS)

addLog(list, entry, at) ==
    IF RetentionDays.nan
    THEN [logs |-> Append(list, entry), threw |-> TRUE, msg |-> InvalidTimeValue]
    ELSE [logs |-> PruneFrom(Append(list, entry), 1, at - RetentionDays.n),
          threw |-> FALSE, msg |-> <<>>]

\* No filters: every field is falsy (absent), as is `filters` itself.
NoFilters == [traceId |-> 0, brand |-> <<>>, action |-> <<>>, status |-> ""]

\* The filters applied one after the other; a falsy filter is skipped.
MatchesFilters(log, filters) ==
    /\ filters.traceId # 0 => log.traceId = filters.traceId
    /\ filters.brand # <<>> => log.brand = filters.brand
    /\ filters.action # <<>> => log.action = filters.action
    /\ filters.status # "" => log.status = filters.status

\* Array.prototype.sort with (a, b) => b.timestamp.localeCompare(a.timestamp):
\* newest first; the sort is stable, entries of one timestamp keep their order.
RECURSIVE SortNewestFirst(_)
SortNewestFirst(list) ==
    IF list = <<>> THEN <<>>
    ELSE LET newest == CHOOSE i \in 1..Len(list) :
                          /\ \A j \in 1..Len(list) : list[j].timestamp <= list[i].timestamp
                          /\ \A j \in 1..(i - 1) : list[j].timestamp < list[i].timestamp
         IN  <<list[newest]>>
                 \o SortNewestFirst(SubSeq(list, 1, newest - 1)
                                        \o SubSeq(list, newest + 1, Len(list)))

\* A faulty getLogs: without the copy, sort reorders the stored list itself.
getLogsSortingInPlace(list, filters) ==
    [logs |-> IF filters = NoFilters THEN SortNewestFirst(list) ELSE list,
     result |-> SortNewestFirst(SelectSeq(list, LAMBDA log : MatchesFilters(log, filters)))]

\* A faulty getLogs: it prunes the stored list before it reads it.
getLogsPruning(list, filters) ==
    LET kept == PruneFrom(list, 1, now - RetentionDays.n)
    IN  [logs |-> kept,
         result |-> SortNewestFirst(SelectSeq(kept, LAMBDA log : MatchesFilters(log, filters)))]

\* getLogs filters and sorts a copy ([...logs]; filter returns new arrays):
\* `logs` is the stored list it leaves, `result` what it returns.
getLogs(list, filters) ==
    [logs |-> list,
     result |-> SortNewestFirst(SelectSeq(list, LAMBDA log : MatchesFilters(log, filters)))]

Masked == JStr(<<"***MASKED***">>)

sensitiveKeys ==
    << <<"grant", "key">>, <<"password">>, <<"secret">>, <<"token">>, <<"key">>,
       <<"authorization">> >>

\* key.toLowerCase() of the property names used here, as tokens: a name that
\* contains a marker has the marker's tokens.
toLowerCase(key) ==
    CASE key = "grantKey"      -> <<"grant", "key">>
      [] key = "PASSWORD"      -> <<"password">>
      [] key = "clientSecret"  -> <<"client", "secret">>
      [] key = "apiToken"      -> <<"api", "token">>
      [] key = "keys"          -> <<"key", "s">>
      [] key = "Authorization" -> <<"authorization">>
      [] key = "credential"    -> <<"credential">>
      [] key = "traceId"       -> <<"traceid">>
      [] OTHER                 -> <<key>>

isSensitive(key) ==
    \E i \in DOMAIN sensitiveKeys : includes(toLowerCase(key), sensitiveKeys[i])

RECURSIVE maskSecrets(_)

\* One turn of the loop over Object.entries(obj): masked[key] = ...
MaskEntry(entry) ==
    IF isSensitive(entry.k) THEN Prop(entry.k, Masked)
    ELSE IF IsObjectLike(entry.v) THEN Prop(entry.k, maskSecrets(entry.v))
    ELSE entry

\* masked[key] = v creates the property, except for the key __proto__: on an
\* object literal that assignment goes to the prototype setter and creates no
\* property.
IsAssignable(entry) == entry.k # "__proto__"

MaskEntries(entries) ==
    [i \in 1..Len(entries) |-> MaskEntry(entries[i])]

maskSecrets(obj) ==
    IF ~IsObjectLike(obj) THEN obj
    ELSE IF obj.t = "array" THEN JArr([i \in 1..Len(obj.e) |-> maskSecrets(obj.e[i])])
    ELSE JObj(MaskEntries(SelectSeq(obj.f, IsAssignable)))

\* ------------------------------------------------------------------------
\* Action names, modes
\* ------------------------------------------------------------------------

Echo == <<"echo">>
JobTreadQuery == <<"jobtread.", "query">>
JobTreadPushJobToQbo == <<"jobtread.", "pushJobToQbo">>
MakeTrigger == <<"make.trigger">>
Actions == {Echo, JobTreadQuery, JobTreadPushJobToQbo, MakeTrigger}

DryRun == <<"dry_run">>
Execute == <<"execute">>
Modes == {DryRun, Execute}

\* ------------------------------------------------------------------------
\* schemas/*.schema.json, compiled by Ajv with allErrors
\* ------------------------------------------------------------------------

EnvelopeFields == <<"action", "mode", "idempotencyKey", "params">>

IsString(v) == v.t = "string"

MissingErrors(value, required) ==
    LET Missing(k) == ~hasOwnProperty(value, k)
    IN  [i \in 1..Len(SelectSeq(required, Missing)) |->
            <<"must have required property ", SelectSeq(required, Missing)[i]>>]

AdditionalErrors(value, known) ==
    LET Unknown(p) == \A i \in 1..Len(known) : known[i] # p.k
    IN  [i \in 1..Len(SelectSeq(value.f, Unknown)) |->
            <<"must NOT have additional properties ", SelectSeq(value.f, Unknown)[i].k>>]

Violation(cond, message) == IF cond THEN <<message>> ELSE <<>>

\* The errors of the envelope schema; valid when there are none.
validateEnvelope(envelope) ==
    IF envelope.t # "object" THEN << <<"must be object">> >>
    ELSE
      MissingErrors(envelope, EnvelopeFields)
      \o AdditionalErrors(envelope, EnvelopeFields)
      \o Violation(hasOwnProperty(envelope, "action")
                      /\ ~(IsString(GetProp(envelope, "action"))
                           /\ GetProp(envelope, "action").s \in Actions),
                   <<"/action must be equal to one of the allowed values">>)
      \o Violation(hasOwnProperty(envelope, "mode")
                      /\ ~(IsString(GetProp(envelope, "mode"))
                           /\ GetProp(envelope, "mode").s \in Modes),
                   <<"/mode must be equal to one of the allowed values">>)
      \o Violation(hasOwnProperty(envelope, "idempotencyKey")
                      /\ ~IsString(GetProp(envelope, "idempotencyKey")),
                   <<"/idempotencyKey must be string">>)
      \o Violation(hasOwnProperty(envelope, "params")
                      /\ GetProp(envelope, "params").t # "object",
                   <<"/params must be object">>)

validateJobTreadQuery(params) ==
    MissingErrors(params, <<"pave">>)
    \o Violation(hasOwnProperty(params, "pave") /\ GetProp(params, "pave").t # "object",
                 <<"/pave must be object">>)

validateJobTreadPushJobToQbo(params) ==
    MissingErrors(params, <<"jobId">>)
    \o Violation(hasOwnProperty(params, "jobId") /\ ~IsString(GetProp(params, "jobId")),
                 <<"/jobId must be string">>)
    \o Violation(hasOwnProperty(params, "jobId") /\ IsString(GetProp(params, "jobId"))
                    /\ GetProp(params, "jobId").s = <<>>,
                 <<"/jobId must NOT have fewer than 1 characters">>)

validateMakeTrigger(params) ==
    MissingErrors(params, <<"webhookUrl", "payload">>)
    \o Violation(hasOwnProperty(params, "webhookUrl")
                    /\ ~(IsString(GetProp(params, "webhookUrl"))
                         /\ UrlParses(GetProp(params, "webhookUrl").s)),
                 <<"/webhookUrl must match format uri">>)
    \o Violation(hasOwnProperty(params, "payload")
                    /\ GetProp(params, "payload").t # "object",
                 <<"/payload must be object">>)

\* ------------------------------------------------------------------------
\* lib/http and the action executors
\* ------------------------------------------------------------------------

\* maxRetries and timeout every executor passes to httpRequest.
MaxRetries == 2
TimeoutMs == 20000

JobTreadUrl == <<"https://", "api", "jobtread", "com", "/pave">>

HttpRequestOptions(url, body) ==
    [url |-> url, method |-> "POST", body |-> body,
     timeout |-> TimeoutMs, maxRetries |-> MaxRetries]

NoCall == [none |-> TRUE]

\* What an executor does up to its first suspension: it returns, throws, or
\* calls httpRequest and waits; `notes` and `prefix` are what it returns or
\* rethrows with once httpRequest has ended.
ExecReturn(result, notes) ==
    [kind |-> "return", result |-> result, notes |-> notes,
     msg |-> <<>>, call |-> NoCall, prefix |-> <<>>]
ExecThrow(msg) ==
    [kind |-> "throw", result |-> JStr(<<>>), notes |-> <<>>,
     msg |-> msg, call |-> NoCall, prefix |-> <<>>]
ExecHttp(call, notes, prefix) ==
    [kind |-> "http", result |-> JStr(<<>>), notes |-> notes,
     msg |-> <<>>, call |-> call, prefix |-> prefix]

executeEcho(params, traceId, at) ==
    JObj(<<Prop("echo", params), Prop("traceId", JNum(traceId)),
           Prop("timestamp", JNum(at))>>)

PaveWrapper(grantKey) ==
    <<Prop("version", JObj(<<>>)),
      Prop("$", JObj(<<Prop("grantKey", JStr(<<grantKey>>)),
                       Prop("timeZone", JStr(<<"America/Chicago">>))>>)),
      Prop("currentGrant", JObj(<<Prop("_type", JObj(<<>>)), Prop("id", JObj(<<>>))>>))>>

\* Steps 2 to 4 of executeJobTreadQuery, with the lint result of step 1.
QueryAfterLint(pave, grantKey, mode, lint) ==
    IF lint.threw THEN ExecThrow(NotAFunction)
    ELSE IF ~lint.valid
    THEN ExecThrow(<<"JobTread query validation failed:\n">> \o JoinLines(lint.errors))
    ELSE IF mode = DryRun
    THEN ExecReturn(JStr(<<"Dry run: Query validated successfully. ",
                           "Would execute against JobTread API.">>), lint.notes)
    ELSE ExecHttp(HttpRequestOptions(JobTreadUrl,
                                     JObj(Spread(PaveWrapper(grantKey), pave.f))),
                  lint.notes, <<"JobTread query failed: ">>)

executeJobTreadQuery(params, brand, grantKey, mode) ==
    QueryAfterLint(GetProp(params, "pave"), grantKey, mode,
                   lintJobTreadQuery(GetProp(params, "pave")))

\* A faulty executor: the dry-run branch is missing.
executeJobTreadPushJobToQboWithoutDryRun(params, brand, grantKey, mode) ==
    ExecHttp(HttpRequestOptions(JobTreadUrl,
                                JObj(PaveWrapper(grantKey)
                                     \o <<Prop("pushJobToQbo", GetProp(params, "jobId"))>>)),
             <<>>, <<"Failed to push job to QuickBooks: ">>)

executeJobTreadPushJobToQbo(params, brand, grantKey, mode) ==
    LET jobId == GetProp(params, "jobId")
    IN  IF mode = DryRun
        THEN ExecReturn(JStr(<<"Dry run: Would push job ">> \o jobId.s
                                \o <<" to QuickBooks Online via JobTread API.">>),
                        << <<"This is a side-effect action - idempotency is enforced by the server">> >>)
        ELSE
          LET idArg == JObj(<<Prop("id", jobId)>>)
              paveBody ==
                JObj(PaveWrapper(grantKey)
                     \o <<Prop("pushJobToQbo",
                              JObj(<<Prop("_type", JObj(<<>>)),
                                     Prop("$", idArg),
                                     Prop("job", JObj(<<Prop("_type", JObj(<<>>)),
                                                        Prop("$", idArg),
                                                        Prop("id", JObj(<<>>)),
                                                        Prop("qboId", JObj(<<>>))>>))>>))>>)
          IN  ExecHttp(HttpRequestOptions(JobTreadUrl, paveBody),
                       << <<"Job ">> \o jobId.s \o <<" pushed to QuickBooks Online successfully">> >>,
                       <<"Failed to push job to QuickBooks: ">>)

\* Steps 1 to 3 of executeMakeTrigger, with the answer of isHostAllowed.
TriggerAfterHostCheck(webhookUrl, payload, mode, host) ==
    IF host.threw THEN ExecThrow(host.msg)
    ELSE IF ~host.allowed
    THEN ExecThrow(<<"Webhook URL host not allowed: ">> \o webhookUrl
                      \o <<". Host must be in ALLOW_HOSTS environment variable.">>)
    ELSE IF mode = DryRun
    THEN ExecReturn(JStr(<<"Dry run: Would POST payload to Make.com webhook: ">>
                            \o webhookUrl),
                    << <<"Webhook URL validated against ALLOW_HOSTS">> >>)
    ELSE ExecHttp(HttpRequestOptions(webhookUrl, payload),
                  << <<"Make.com webhook triggered successfully">> >>,
                  <<"Failed to trigger Make.com webhook: ">>)

executeMakeTrigger(params, mode) ==
    TriggerAfterHostCheck(GetProp(params, "webhookUrl").s, GetProp(params, "payload"),
                          mode, isHostAllowed(GetProp(params, "webhookUrl").s))

\* A faulty delay: it grows by a second per failure instead of doubling.
BackoffDelayLinear(attempt) == attempt * 1000

\* Exponential backoff after the attempt-th failure: Math.pow(2, attempt - 1) * 1000
BackoffDelay(attempt) == (2 ^ (attempt - 1)) * 1000

\* A faulty message: it names the retries, not the attempts.
HttpFailedMessageNamingRetries(maxRetries, lastError) ==
    <<"HTTP request failed after ", ToString(maxRetries), " attempts: ">> \o lastError

\* `HTTP request failed after ${maxRetries + 1} attempts: ${lastError.message}`
HttpFailedMessage(maxRetries, lastError) ==
    <<"HTTP request failed after ", ToString(maxRetries + 1), " attempts: ">> \o lastError

NoResponse == [none |-> TRUE]

\* A call of httpRequest as it runs: its maxRetries option, the catch block's
\* attempt counter, the attempts sent so far, those of them the downstream
\* received, the backoff delays waited, where
\* it stands (http: an attempt is pending, backoff: waiting to retry, returned,
\* threw) and what it returned or threw with.
HttpCall(maxRetries) ==
    [maxRetries |-> maxRetries, attempt |-> 0, sent |-> 1, received |-> 0,
     waited |-> <<>>, pc |-> "http", response |-> NoResponse, msg |-> <<>>]

\* Errors of an attempt that the downstream has received: the request was
\* written and the wait for the answer timed out (headersTimeout, bodyTimeout).
TimeoutErrors == { <<"Headers Timeout Error">> }

\* The attempts the downstream has received, once one more has failed.
ReceivedAfter(call, lastError) ==
    IF lastError \in TimeoutErrors THEN call.received + 1 ELSE call.received

\* A faulty catch block: it gives up one attempt early.
httpRequestCatchEarly(call, lastError) ==
    IF call.attempt + 1 >= call.maxRetries
    THEN [call EXCEPT !.attempt = @ + 1, !.pc = "threw",
                      !.received = ReceivedAfter(call, lastError),
                      !.msg = HttpFailedMessage(call.maxRetries, lastError)]
    ELSE [call EXCEPT !.attempt = @ + 1, !.pc = "backoff",
                      !.received = ReceivedAfter(call, lastError),
                      !.waited = Append(@, BackoffDelay(call.attempt + 1))]

\* A faulty catch block: it starts the call over instead of counting the
\* failure, so that it never gives up.
httpRequestCatchStartingOver(call, lastError) ==
    [call EXCEPT !.attempt = 0, !.sent = 0, !.received = 0, !.waited = <<>>,
                 !.pc = "backoff"]

\* catch (error) { attempt++; throw when attempt > maxRetries, else wait }
httpRequestCatch(call, lastError) ==
    IF call.attempt + 1 > call.maxRetries
    THEN [call EXCEPT !.attempt = @ + 1, !.pc = "threw",
                      !.received = ReceivedAfter(call, lastError),
                      !.msg = HttpFailedMessage(call.maxRetries, lastError)]
    ELSE [call EXCEPT !.attempt = @ + 1, !.pc = "backoff",
                      !.received = ReceivedAfter(call, lastError),
                      !.waited = Append(@, BackoffDelay(call.attempt + 1))]

\* A faulty try block: a 5xx answer is treated as a failed attempt.
httpRequestReturnUnless5xx(call, response) ==
    IF response.status >= 500
    THEN httpRequestCatch(call, <<"Server error">>)
    ELSE [call EXCEPT !.pc = "returned", !.response = response,
                      !.received = @ + 1]

\* return { status, headers, data }: whatever the status.
httpRequestReturn(call, response) ==
    [call EXCEPT !.pc = "returned", !.response = response, !.received = @ + 1]

\* The backoff timer fired: the loop sends the next attempt.
httpRequestRetry(call) == [call EXCEPT !.pc = "http", !.sent = @ + 1]

\* ------------------------------------------------------------------------
\* POST /v1/actions/execute
\* ------------------------------------------------------------------------

\* let traceId, brand, action, mode: undefined until assigned
NoLocals == [traceId |-> 0, brand |-> <<>>, action |-> <<>>, mode |-> <<>>]

\* A faulty key: the tenant is left out.
CacheKeyWithoutBrand(action, brand, idempotencyKey) ==
    action \o <<":">> \o idempotencyKey

\* `${action}:${brand}:${envelope.idempotencyKey}`
CacheKey(action, brand, idempotencyKey) ==
    action \o <<":">> \o brand \o <<":">> \o idempotencyKey

CacheSet(cache, key, value) ==
    [k \in (DOMAIN cache) \cup {key} |-> IF k = key THEN value ELSE cache[k]]

ErrorBody(message) == [ok |-> FALSE, error |-> message]
DetailsBody(message, details) == [ok |-> FALSE, error |-> message, details |-> details]
FailureBody(traceId, message) == [ok |-> FALSE, traceId |-> traceId, error |-> message]
\* A faulty response: the notes are left out.
SuccessBodyWithoutNotes(traceId, result, notes) ==
    [ok |-> TRUE, traceId |-> traceId, result |-> result]

SuccessBody(traceId, result, notes) ==
    [ok |-> TRUE, traceId |-> traceId, result |-> result, notes |-> notes]
\* The framework's reply when the handler itself rejects.
FrameworkErrorBody(message) ==
    [statusCode |-> 500, error |-> <<"Internal Server Error">>, message |-> message]

SuccessEntry(locals, duration, notes, at) ==
    [timestamp |-> at, traceId |-> locals.traceId, brand |-> locals.brand,
     action |-> locals.action, mode |-> locals.mode, status |-> "success",
     duration |-> duration, notes |-> notes]

ErrorEntry(traceId, locals, duration, message, at) ==
    [timestamp |-> at, traceId |-> traceId, brand |-> locals.brand,
     action |-> locals.action, mode |-> locals.mode, status |-> "error",
     duration |-> duration, notes |-> <<>>, error |-> message]

\* How a run of the handler ends or suspends: the stores it leaves, the reply,
\* and, when it waits for httpRequest, what it waits with.
Ended(status, body, locals, cache, list, next) ==
    [kind |-> "done", status |-> status, body |-> body, locals |-> locals,
     cache |-> cache, logs |-> list, next |-> next,
     key |-> <<>>, exec |-> ExecThrow(<<>>), hit |-> FALSE, dispatched |-> FALSE]

\* The end of the catch block: the reply after addLog, or the framework's
\* reply when addLog itself threw.
CatchReply(message, traceId, caught, cache, next, added) ==
    IF added.threw
    THEN Ended(500, FrameworkErrorBody(added.msg), caught, cache, added.logs, next)
    ELSE Ended(500, FailureBody(traceId, message), caught, cache, added.logs, next)

\* The catch block once `traceId || createTraceId()` is evaluated.
CatchWithTrace(message, traceId, locals, startTime, cache, list, next) ==
    IF locals.brand # <<>> /\ locals.action # <<>> /\ locals.mode # <<>>
    THEN CatchReply(message, traceId, [locals EXCEPT !.traceId = traceId], cache, next,
                    addLog(list, ErrorEntry(traceId, locals, now - startTime, message, now),
                           now))
    ELSE Ended(500, FailureBody(traceId, message), [locals EXCEPT !.traceId = traceId],
               cache, list, next)

\* catch (error) { ... }
CatchBlock(message, locals, startTime, cache, list, next) ==
    IF locals.traceId = 0
    THEN CatchWithTrace(message, next, locals, startTime, cache, list, next + 1)
    ELSE CatchWithTrace(message, locals.traceId, locals, startTime, cache, list, next)

\* A faulty store: the response is stored whatever the mode.
StoreAndReplyInEveryMode(response, locals, key, cache, list, next) ==
    Ended(200, response, locals, CacheSet(cache, key, response), list, next)

\* Steps 11 and 12: store the response (execute only) and reply.
StoreAndReply(response, locals, key, cache, list, next) ==
    Ended(200, response, locals,
          IF locals.mode = Execute THEN CacheSet(cache, key, response) ELSE cache,
          list, next)

\* What follows the success entry's addLog.
AfterSuccessLog(result, notes, locals, key, startTime, cache, next, added) ==
    IF added.threw
    THEN CatchBlock(added.msg, locals, startTime, cache, added.logs, next)
    ELSE StoreAndReply(SuccessBody(locals.traceId, result, notes), locals, key, cache,
                       added.logs, next)

\* Faulty steps: the response is stored and returned without an audit entry.
SuccessStepsWithoutLog(result, notes, locals, key, startTime, cache, list, next) ==
    StoreAndReply(SuccessBody(locals.traceId, result, notes), locals, key, cache,
                  list, next)

\* Steps 9, 11, 12: log the success, store the response (execute only), reply.
SuccessSteps(result, notes, locals, key, startTime, cache, list, next) ==
    AfterSuccessLog(result, notes, locals, key, startTime, cache, next,
                    addLog(list, SuccessEntry(locals, now - startTime, notes, now), now))

\* Step 10: the executor of the action, up to its first suspension.
RouteAction(action, params, brand, grantKey, mode, traceId) ==
    IF action = Echo THEN ExecReturn(executeEcho(params, traceId, now), <<>>)
    ELSE IF action = JobTreadQuery THEN executeJobTreadQuery(params, brand, grantKey, mode)
    ELSE IF action = JobTreadPushJobToQbo
         THEN executeJobTreadPushJobToQbo(params, brand, grantKey, mode)
    ELSE executeMakeTrigger(params, mode)

\* Step 6: the errors of the action's params schema (echo accepts anything).
ParamsErrors(action, params) ==
    IF action = Echo THEN <<>>
    ELSE IF action = JobTreadQuery THEN validateJobTreadQuery(params)
    ELSE IF action = JobTreadPushJobToQbo THEN validateJobTreadPushJobToQbo(params)
    ELSE validateMakeTrigger(params)

\* A faulty handler: when the executor throws, the failure reply is stored
\* under the request's key.
AfterExecutorStoringFailure(exec, locals, key, startTime, cache, list, next) ==
    [(IF exec.kind = "return"
      THEN SuccessSteps(exec.result, exec.notes, locals, key, startTime, cache, list, next)
      ELSE IF exec.kind = "throw"
      THEN CatchBlock(exec.msg, locals, startTime,
                      CacheSet(cache, key, FailureBody(locals.traceId, exec.msg)),
                      list, next)
      ELSE [Ended(0, [none |-> TRUE], locals, cache, list, next) EXCEPT !.kind = "await"])
     EXCEPT !.key = key, !.dispatched = TRUE, !.exec = exec]

\* The handler after the executor's first run: it returned, threw, or waits.
AfterExecutor(exec, locals, key, startTime, cache, list, next) ==
    [(IF exec.kind = "return"
      THEN SuccessSteps(exec.result, exec.notes, locals, key, startTime, cache, list, next)
      ELSE IF exec.kind = "throw"
      THEN CatchBlock(exec.msg, locals, startTime, cache, list, next)
      ELSE [Ended(0, [none |-> TRUE], locals, cache, list, next) EXCEPT !.kind = "await"])
     EXCEPT !.key = key, !.dispatched = TRUE, !.exec = exec]

\* Steps 8 and 10, with the grant key lookup's outcome.
AfterGrantKey(grant, params, locals, key, startTime, cache, list, next) ==
    IF grant.threw
    THEN [CatchBlock(grant.msg, locals, startTime, cache, list, next) EXCEPT !.key = key]
    ELSE AfterExecutor(RouteAction(locals.action, params, locals.brand, grant.grantKey,
                                   locals.mode, locals.traceId),
                       locals, key, startTime, cache, list, next)

\* Steps 7 to 12 once the cache key is built.
DispatchWithKey(key, params, locals, startTime, cache, list, next) ==
    IF locals.mode = Execute /\ key \in DOMAIN cache
    THEN [Ended(200, cache[key], locals, cache, list, next)
            EXCEPT !.hit = TRUE, !.key = key]
    ELSE AfterGrantKey(IF startsWith(locals.action, <<"jobtread.">>)
                       THEN getGrantKeyForBrand(locals.brand)
                       ELSE [threw |-> FALSE, grantKey |-> "", msg |-> <<>>],
                       params, locals, key, startTime, cache, list, next)

\* A faulty step 7: the params are part of the cache key.
DispatchKeyedByParams(envelope, locals, startTime, cache, list, next) ==
    DispatchWithKey(CacheKey(locals.action, locals.brand,
                             GetProp(envelope, "idempotencyKey").s)
                        \o <<":", GetProp(envelope, "params")>>,
                    GetProp(envelope, "params"), locals, startTime, cache, list, next)

\* Steps 7 to 12, for a request that passed steps 1 to 6.
Dispatch(envelope, locals, startTime, cache, list, next) ==
    DispatchWithKey(CacheKey(locals.action, locals.brand,
                             GetProp(envelope, "idempotencyKey").s),
                    GetProp(envelope, "params"), locals, startTime, cache, list, next)

\* A faulty step 6: the rejection is written to the audit log.
AfterParamsCheckLogged(paramsErrors, envelope, locals, startTime, cache, list, next) ==
    IF paramsErrors # <<>>
    THEN Ended(422, DetailsBody(<<"Invalid parameters for action">>, paramsErrors),
               locals, cache,
               Append(list, ErrorEntry(locals.traceId, locals, now - startTime,
                                       <<"Invalid parameters for action">>, now)),
               next)
    ELSE Dispatch(envelope, locals, startTime, cache, list, next)

\* Steps 6 to 12, with the errors of the params schema.
AfterParamsCheck(paramsErrors, envelope, locals, startTime, cache, list, next) ==
    IF paramsErrors # <<>>
    THEN Ended(422, DetailsBody(<<"Invalid parameters for action">>, paramsErrors),
               locals, cache, list, next)
    ELSE Dispatch(envelope, locals, startTime, cache, list, next)

\* Steps 5 to 12: traceId, action and mode are assigned, the action is looked up.
AfterEnvelopeCheck(envelope, locals, startTime, cache, list, next) ==
    IF locals.action \notin Actions
    THEN Ended(422, ErrorBody(<<"Unknown action: ">> \o locals.action),
               locals, cache, list, next)
    ELSE AfterParamsCheck(ParamsErrors(locals.action, GetProp(envelope, "params")),
                          envelope, locals, startTime, cache, list, next)

\* Step 4, with the errors of the envelope schema.
EnvelopeCheck(envelopeErrors, envelope, brand, startTime, cache, list, next) ==
    IF envelopeErrors # <<>>
    THEN Ended(422, DetailsBody(<<"Invalid request format">>, envelopeErrors),
               [NoLocals EXCEPT !.brand = brand], cache, list, next)
    ELSE AfterEnvelopeCheck(envelope,
                            [traceId |-> next, brand |-> brand,
                             action |-> GetProp(envelope, "action").s,
                             mode |-> GetProp(envelope, "mode").s],
                            startTime, cache, list, next + 1)

\* A faulty step order: the envelope is validated before an unknown gateway
\* key is rejected.
BrandCheckAfterEnvelope(brandResult, envelope, startTime, cache, list, next) ==
    IF brandResult.threw
    THEN CatchBlock(brandResult.msg, NoLocals, startTime, cache, list, next)
    ELSE IF validateEnvelope(envelope) # <<>>
    THEN Ended(422, DetailsBody(<<"Invalid request format">>, validateEnvelope(envelope)),
               NoLocals, cache, list, next)
    ELSE IF brandResult.brand = <<>>
    THEN Ended(401, ErrorBody(<<"Invalid gateway key">>), NoLocals, cache, list, next)
    ELSE EnvelopeCheck(<<>>, envelope, brandResult.brand, startTime, cache, list, next)

\* Step 3, with the outcome of getBrandFromGatewayKey.
BrandCheck(brandResult, envelope, startTime, cache, list, next) ==
    IF brandResult.threw
    THEN CatchBlock(brandResult.msg, NoLocals, startTime, cache, list, next)
    ELSE IF brandResult.brand = <<>>
    THEN Ended(401, ErrorBody(<<"Invalid gateway key">>), NoLocals, cache, list, next)
    ELSE EnvelopeCheck(validateEnvelope(envelope), envelope, brandResult.brand,
                       startTime, cache, list, next)

\* The handler from its first line to its reply or its first suspension.
HandleRequest(input, startTime, cache, list, next) ==
    IF input.rawBody.t = "undefined"
    THEN Ended(400, ErrorBody(<<"Request body is required">>), NoLocals, cache, list, next)
    ELSE IF input.gatewayKey = ""
    THEN Ended(401, ErrorBody(<<"x-gateway-key header is required">>),
               NoLocals, cache, list, next)
    ELSE IF input.signature = <<>>
    THEN Ended(401, ErrorBody(<<"X-Signature header is required">>),
               NoLocals, cache, list, next)
    ELSE IF env.HMAC_SECRET = ""
    THEN CatchBlock(<<"HMAC_SECRET not configured">>, NoLocals, startTime, cache, list, next)
    ELSE IF ~verifyHmacSignature(input.rawBody, input.signature, env.HMAC_SECRET)
    THEN Ended(401, ErrorBody(<<"Invalid HMAC signature">>), NoLocals, cache, list, next)
    ELSE BrandCheck(getBrandFromGatewayKey(input.gatewayKey), input.rawBody,
                    startTime, cache, list, next)

\* ------------------------------------------------------------------------
\* The requests the gateway receives
\* ------------------------------------------------------------------------

Envelope(action, mode, idempotencyKey, params) ==
    JObj(<<Prop("action", JStr(action)), Prop("mode", JStr(mode)),
           Prop("idempotencyKey", JStr(idempotencyKey)), Prop("params", params)>>)

\* The secret the caller signs with.
CallerSecret == "hmac-secret"

Sign(body, secret) == <<SignaturePrefix>> \o HexDigest(HmacSha256(secret, body))

\* A request signed with the shared secret and carrying a gateway key.
Signed(gatewayKey, body) ==
    [rawBody |-> body, gatewayKey |-> gatewayKey, signature |-> Sign(body, CallerSecret)]

KeyDB == "gateway-key-db"
KeyCI == "gateway-key-ci"

K1 == <<"k1">>
K2 == <<"DB", ":", "k1">>

EchoParams == JObj(<<Prop("msg", JStr(<<"hi">>))>>)

PaveSmall ==
    JObj(<<Prop("jobs", JObj(<<Prop("nodes", JObj(<<Prop("id", JObj(<<>>))>>)),
                               Prop("size", JNum(50))>>))>>)

\* A page size of 150 two levels down, inside an array.
PaveLarge ==
    JObj(<<Prop("jobs",
                JObj(<<Prop("nodes",
                            JArr(<<JObj(<<Prop("costItems",
                                               JObj(<<Prop("size", JNum(150))>>))>>)>>)),
                       Prop("size", JNum(10))>>))>>)

\* A query that brings its own "$" arguments at the root.
PaveOwnGrant ==
    JObj(<<Prop("$", JObj(<<Prop("grantKey", JStr(<<"grant-key-ci">>))>>)),
           Prop("jobs", JObj(<<Prop("size", JNum(5))>>))>>)

QueryParams(pave) == JObj(<<Prop("pave", pave)>>)
PushParams(jobId) == JObj(<<Prop("jobId", JStr(jobId))>>)

HookUrl == <<"https://", "hooks", "make", "com", "/abc123">>
OtherUrl == <<"https://", "evil", "example", "/abc123">>
MakeParams(url) ==
    JObj(<<Prop("webhookUrl", JStr(url)),
           Prop("payload", JObj(<<Prop("vendor", JStr(<<"ABC Supply">>))>>))>>)

\* Envelopes that pass both schemas.
ValidEnvelopes ==
    { Envelope(Echo, m, K1, EchoParams) : m \in Modes }
    \cup { Envelope(JobTreadQuery, m, K1, QueryParams(p)) :
               m \in Modes, p \in {PaveSmall, PaveLarge, PaveOwnGrant} }
    \cup { Envelope(JobTreadPushJobToQbo, m, K1, PushParams(<<"j1">>)) : m \in Modes }
    \cup { Envelope(JobTreadPushJobToQbo, Execute, K1, PushParams(<<"j2">>)),
           Envelope(JobTreadPushJobToQbo, Execute, K2, PushParams(<<"j1">>)) }
    \cup { Envelope(MakeTrigger, m, K1, MakeParams(u)) :
               m \in Modes, u \in {HookUrl, OtherUrl} }

\* Envelopes that fail the envelope schema or the params schema.
BadEnvelope ==
    JObj(<<Prop("action", JStr(<<"drop.table">>)),
           Prop("idempotencyKey", JStr(K1)), Prop("params", EchoParams),
           Prop("debug", JNum(1))>>)

BadParamsEnvelopes ==
    { Envelope(JobTreadQuery, Execute, K1, JObj(<<>>)),
      Envelope(JobTreadPushJobToQbo, Execute, K1, PushParams(<<>>)),
      Envelope(MakeTrigger, DryRun, K1, JObj(<<Prop("webhookUrl", JStr(HookUrl))>>)) }

EchoDryRun == Envelope(Echo, DryRun, K1, EchoParams)

Inputs ==
    { Signed(KeyDB, e) : e \in ValidEnvelopes \cup BadParamsEnvelopes \cup {BadEnvelope} }
    \cup { Signed(KeyCI, Envelope(JobTreadPushJobToQbo, Execute, K1, PushParams(<<"j1">>))),
           Signed(KeyCI, Envelope(JobTreadQuery, Execute, K1, QueryParams(PaveOwnGrant))) }
    \cup { [Signed(KeyDB, EchoDryRun) EXCEPT !.rawBody = [t |-> "undefined"]],
           [Signed(KeyDB, EchoDryRun) EXCEPT !.gatewayKey = ""],
           [Signed(KeyDB, EchoDryRun) EXCEPT !.signature = <<>>],
           [Signed(KeyDB, EchoDryRun) EXCEPT !.signature = Sign(EchoDryRun, "guessed-secret")],
           [Signed(KeyDB, EchoDryRun) EXCEPT !.gatewayKey = "gateway-key-x"],
           Signed("gateway-key-x", BadEnvelope),
           \* Several checks fail at once.
           [rawBody |-> BadEnvelope, gatewayKey |-> "gateway-key-x",
            signature |-> Sign(BadEnvelope, "guessed-secret")] }

\* What the downstream answers to a delivered request.
Accepted == JObj(<<Prop("ok", JNum(1))>>)

DownstreamResponses ==
    { [status |-> 200, data |-> Accepted],
      [status |-> 500, data |-> JStr(<<"Internal Server Error">>)] }

\* How an attempt fails at transport level.
TransportErrors == { <<"connect ECONNREFUSED">> }

\* ------------------------------------------------------------------------
\* Actions
\* ------------------------------------------------------------------------

NoInput == [none |-> TRUE]
NoBody == [none |-> TRUE]
\* No library function has been called directly.
NoLibCall == [op |-> "none"]

\* A request before it arrives.  pc is its position (idle, http: an attempt is
\* pending, backoff: waiting to retry, done: replied); sent counts its outbound
\* attempts, received those of them that the downstream received, waited
\* lists its backoff delays and response is what httpRequest
\* returned to its executor; seen records which requests had been replied to
\* when this one arrived.
IdleRequest ==
    [pc |-> "idle", input |-> NoInput, startTime |-> 0, locals |-> NoLocals,
     key |-> <<>>, exec |-> ExecThrow(<<>>), hit |-> FALSE, dispatched |-> FALSE,
     attempt |-> 0, sent |-> 0, received |-> 0, waited |-> <<>>,
     response |-> NoResponse, status |-> 0, body |-> NoBody, seen |-> {}]

Init ==
    /\ env \in EnvConfigs
    /\ idempotencyCache = <<>>
    /\ logs = <<>>
    /\ req = [r \in 1..MaxRequests |-> IdleRequest]
    /\ nextTraceId = 1
    /\ now = 0
    /\ lib = NoLibCall

\* The stores and the request after a run of the handler that ended, `call`
\* being the request's call of httpRequest as it ended.
Finish(r, out, call) ==
    /\ idempotencyCache' = out.cache
    /\ logs' = out.logs
    /\ nextTraceId' = out.next
    /\ req' = [req EXCEPT ![r].pc = "done", ![r].locals = out.locals,
                          ![r].status = out.status, ![r].body = out.body,
                          ![r].sent = call.sent, ![r].attempt = call.attempt,
                          ![r].received = call.received,
                          ![r].waited = call.waited, ![r].response = call.response]

\* A request arrives and its handler runs to its reply or to its first
\* outbound attempt.
Receive(r, offered) ==
    /\ req[r].pc = "idle"
    /\ r > 1 => req[r - 1].pc # "idle"
    /\ \E input \in offered :
         \E out \in {HandleRequest(input, now, idempotencyCache, logs, nextTraceId)} :
            /\ nextTraceId' = out.next
            /\ idempotencyCache' = out.cache
            /\ logs' = out.logs
            /\ req' = [req EXCEPT ![r] =
                         [@ EXCEPT !.input = input, !.startTime = now,
                                   !.key = out.key, !.exec = out.exec,
                                   !.hit = out.hit, !.dispatched = out.dispatched,
                                   !.locals = out.locals,
                                   !.pc = IF out.kind = "done" THEN "done" ELSE "http",
                                   !.status = out.status, !.body = out.body,
                                   !.sent = IF out.kind = "done" THEN 0 ELSE 1,
                                   !.seen = {q \in DOMAIN req : req[q].pc = "done"}]]
    /\ UNCHANGED <<env, now, lib>>

\* The call of httpRequest the request's executor waits for.
CallOf(r) ==
    [maxRetries |-> req[r].exec.call.maxRetries, attempt |-> req[r].attempt,
     sent |-> req[r].sent, received |-> req[r].received,
     waited |-> req[r].waited, pc |-> req[r].pc,
     response |-> req[r].response, msg |-> <<>>]

\* The request after a step of its call of httpRequest: when the call
\* returned, the executor returns the response's data and the handler logs,
\* stores and replies; when it threw, the executor rethrows and the handler
\* catches; otherwise the request goes on waiting.
HttpOutcome(r, call) ==
    IF call.pc = "returned"
    THEN Finish(r, SuccessSteps(call.response.data, req[r].exec.notes, req[r].locals,
                                req[r].key, req[r].startTime,
                                idempotencyCache, logs, nextTraceId),
                call)
    ELSE IF call.pc = "threw"
    THEN Finish(r, CatchBlock(req[r].exec.prefix \o call.msg,
                              req[r].locals, req[r].startTime,
                              idempotencyCache, logs, nextTraceId),
                call)
    ELSE /\ req' = [req EXCEPT ![r].pc = call.pc, ![r].attempt = call.attempt,
                               ![r].sent = call.sent, ![r].received = call.received,
                               ![r].waited = call.waited]
         /\ UNCHANGED <<idempotencyCache, logs, nextTraceId>>

\* A faulty scheduler: the backoff sleep blocks the whole process, so that no
\* answer is handled while any request sleeps.
HttpRespondWhileNoneSleeps(r) ==
    /\ req[r].pc = "http"
    /\ \A q \in DOMAIN req : req[q].pc # "backoff"
    /\ \E response \in DownstreamResponses :
         \E call \in {httpRequestReturn(CallOf(r), response)} : HttpOutcome(r, call)
    /\ UNCHANGED <<env, now, lib>>

\* The pending attempt gets a response, of any status.
HttpRespond(r) ==
    /\ req[r].pc = "http"
    /\ \E response \in DownstreamResponses :
         \E call \in {httpRequestReturn(CallOf(r), response)} : HttpOutcome(r, call)
    /\ UNCHANGED <<env, now, lib>>

\* The pending attempt fails at transport level.
HttpFail(r) ==
    /\ req[r].pc = "http"
    /\ \E lastError \in TransportErrors :
         \E call \in {httpRequestCatch(CallOf(r), lastError)} : HttpOutcome(r, call)
    /\ UNCHANGED <<env, now, lib>>

\* The pending attempt was received downstream and the wait for its answer
\* timed out.
HttpTimeout(r) ==
    /\ req[r].pc = "http"
    /\ \E lastError \in TimeoutErrors :
         \E call \in {httpRequestCatch(CallOf(r), lastError)} : HttpOutcome(r, call)
    /\ UNCHANGED <<env, now, lib>>

\* The backoff timer fires: the next attempt starts.
BackoffElapsed(r) ==
    /\ req[r].pc = "backoff"
    /\ \E call \in {httpRequestRetry(CallOf(r))} : HttpOutcome(r, call)
    /\ UNCHANGED <<env, now, lib>>

Next ==
    \E r \in 1..MaxRequests :
        \/ Receive(r, Inputs)
        \/ HttpRespond(r)
        \/ HttpFail(r)
        \/ HttpTimeout(r)
        \/ BackoffElapsed(r)

\* Any MaxRequests requests, in any interleaving, under any configuration.
Spec == Init /\ [][Next]_vars

\* Replays: requests for the same side-effecting work, sent again and again to
\* a fully configured gateway.
ReplayInputs ==
    { Signed(KeyDB, Envelope(JobTreadPushJobToQbo, Execute, K1, PushParams(<<"j1">>))),
      Signed(KeyDB, Envelope(JobTreadPushJobToQbo, Execute, K1, PushParams(<<"j2">>))),
      Signed(KeyDB, Envelope(JobTreadPushJobToQbo, DryRun, K1, PushParams(<<"j1">>))),
      Signed(KeyCI, Envelope(JobTreadPushJobToQbo, Execute, K1, PushParams(<<"j1">>))),
      Signed(KeyDB, Envelope(Echo, Execute, K1, EchoParams)) }

InitReplay ==
    /\ env = GoodEnv
    /\ idempotencyCache = <<>>
    /\ logs = <<>>
    /\ req = [r \in 1..MaxReplays |-> IdleRequest]
    /\ nextTraceId = 1
    /\ now = 0
    /\ lib = NoLibCall

NextReplay ==
    \E r \in 1..MaxReplays :
        \/ Receive(r, ReplayInputs)
        \/ HttpRespond(r)
        \/ HttpFail(r)
        \/ BackoffElapsed(r)

SpecReplay == InitReplay /\ [][NextReplay]_vars

\* ------------------------------------------------------------------------
\* The library functions called directly: addLog, getLogs, maskSecrets,
\* httpRequest
\* ------------------------------------------------------------------------

LogEntry(t, traceId, brand, action, status) ==
    [timestamp |-> t, traceId |-> traceId, brand |-> brand, action |-> action,
     mode |-> Execute, status |-> status, duration |-> 0, notes |-> <<>>]

\* The entries addLog is called with, stamped t: a success, an error, and a
\* success that carries the grant key it used.
LibEntries(t) ==
    { LogEntry(t, 1, <<"DB">>, Echo, "success"),
      [timestamp |-> t, traceId |-> 2, brand |-> <<"CI">>, action |-> JobTreadQuery,
       mode |-> Execute, status |-> "error", duration |-> 0, notes |-> <<>>,
       error |-> <<"connect ECONNREFUSED">>],
      [timestamp |-> t, traceId |-> 3, brand |-> <<"DB">>, action |-> JobTreadQuery,
       mode |-> Execute, status |-> "success", duration |-> 0, notes |-> <<>>,
       grantKey |-> JStr(<<"grant-key-db">>)] }

LibFilters ==
    { NoFilters,
      [NoFilters EXCEPT !.brand = <<"DB">>],
      [NoFilters EXCEPT !.status = "error"],
      [NoFilters EXCEPT !.traceId = 3, !.action = JobTreadQuery] }

\* The values maskSecrets is called with: scalars, and one property of each
\* name and kind of value in an object, in a nested object, in an array and in
\* an array of arrays.
KeyNames ==
    { "grantKey", "PASSWORD", "clientSecret", "apiToken", "keys", "Authorization",
      "credential", "name", "__proto__" }

MaskLeaves ==
    { JNull, JNum(7), JStr(<<"s3cr3t">>),
      JObj(<<Prop("id", JNum(1))>>), JArr(<<JStr(<<"a">>)>>) }

MaskObjects ==
    { JObj(<<Prop("id", JNum(1)), Prop(k, v)>>) : k \in KeyNames, v \in MaskLeaves }

MaskInputs ==
    {JNull, JNum(7), JStr(<<"s3cr3t">>)}
        \cup MaskObjects
        \cup { JObj(<<Prop("user", o)>>) : o \in MaskObjects }
        \cup { JArr(<<o, JNum(7)>>) : o \in MaskObjects }
        \cup { JArr(<<JArr(<<o>>)>>) : o \in MaskObjects }

LibEnvs ==
    { [GoodEnv EXCEPT !.LOG_RETENTION_DAYS = days] : days \in {"", "1", "0", "abc"} }

InitLib ==
    /\ env \in LibEnvs
    /\ idempotencyCache = <<>>
    /\ logs = <<>>
    /\ req = [r \in 1..MaxRequests |-> IdleRequest]
    /\ nextTraceId = 1
    /\ now = 0
    /\ lib = NoLibCall

\* A day passes.
Tick ==
    /\ now < MaxDays
    /\ now' = now + 1
    /\ UNCHANGED <<env, idempotencyCache, logs, req, nextTraceId, lib>>

\* addLog(entry), the entry stamped now or earlier; `before` is the stored
\* list the call found.
AddLogCall ==
    /\ Len(logs) < MaxLogLen
    /\ \E t \in 0..now :
         \E entry \in LibEntries(t) :
            \E out \in {addLog(logs, entry, now)} :
               /\ logs' = out.logs
               /\ lib' = [op |-> "addLog", entry |-> entry, at |-> now,
                          before |-> logs, threw |-> out.threw]
    /\ UNCHANGED <<env, idempotencyCache, req, nextTraceId, now>>

\* getLogs(filters); `before` is the stored list the call found and `at` the
\* time of the call.
GetLogsCall ==
    /\ \E filters \in LibFilters :
         \E out \in {getLogs(logs, filters)} :
            /\ logs' = out.logs
            /\ lib' = [op |-> "getLogs", filters |-> filters, before |-> logs,
                       at |-> now, result |-> out.result]
    /\ UNCHANGED <<env, idempotencyCache, req, nextTraceId, now>>

\* The configurations the functions below are called under: complete, one
\* gateway key unset, both gateway keys set to one value, no allowlist.
CallEnvs ==
    { GoodEnv,
      [GoodEnv EXCEPT !.GATEWAY_KEY_CI = ""],
      [GoodEnv EXCEPT !.GATEWAY_KEY_CI = "gateway-key-db"],
      [GoodEnv EXCEPT !.ALLOW_HOSTS = <<>>] }

InitCalls ==
    /\ env \in CallEnvs
    /\ idempotencyCache = <<>>
    /\ logs = <<>>
    /\ req = [r \in 1..MaxRequests |-> IdleRequest]
    /\ nextTraceId = 1
    /\ now = 0
    /\ lib = NoLibCall

\* The strings getBrandFromGatewayKey is called with: the two keys, a prefix,
\* an extension, a substring and another case of one of them, the empty
\* string.
KeyInputs ==
    { "gateway-key-db", "gateway-key-ci", "gateway-key-d", "gateway-key-db2",
      "key-db", "GATEWAY-KEY-DB", "" }

\* getBrandFromGatewayKey(key)
BrandCall ==
    /\ \E key \in KeyInputs :
         lib' = [op |-> "getBrandFromGatewayKey", key |-> key,
                 result |-> getBrandFromGatewayKey(key)]
    /\ UNCHANGED <<env, idempotencyCache, logs, req, nextTraceId, now>>

\* The URLs executeMakeTrigger is called with: an allowed host, a subdomain of
\* it, its parent domain, its top-level domain, a host that only shares the
\* parent, another host, no URL.
WebhookUrls ==
    { HookUrl, OtherUrl,
      <<"https://", "eu1", "hooks", "make", "com", "/abc123">>,
      <<"https://", "make", "com", "/abc123">>,
      <<"https://", "com", "/abc123">>,
      <<"https://", "evil", "make", "com", "/abc123">>,
      <<"hooks", "make", "com">> }

\* executeMakeTrigger(params, mode), up to its first suspension
TriggerCall ==
    /\ \E url \in WebhookUrls, mode \in Modes :
         lib' = [op |-> "executeMakeTrigger", url |-> url, mode |-> mode,
                 result |-> executeMakeTrigger(MakeParams(url), mode)]
    /\ UNCHANGED <<env, idempotencyCache, logs, req, nextTraceId, now>>

\* A character that is no hex digit.
NonHexChar == [other |-> "z"]

\* The headers verifyHmacSignature is called with for a body: the right one;
\* the right digest followed by a non-hex character, by two, by one more hex
\* digit; the digest cut short by a digit, by a byte; a non-hex character
\* inside it; the digest under another secret; no prefix; nothing.
SignatureInputs(body) ==
    LET right == HexDigest(HmacSha256(env.HMAC_SECRET, body))
        wrong == HexDigest(HmacSha256("guessed-secret", body))
    IN  { <<SignaturePrefix>> \o right,
          <<SignaturePrefix>> \o right \o <<NonHexChar>>,
          <<SignaturePrefix>> \o right \o <<NonHexChar, NonHexChar>>,
          <<SignaturePrefix>> \o right \o <<right[1]>>,
          <<SignaturePrefix>> \o SubSeq(right, 1, Len(right) - 1),
          <<SignaturePrefix>> \o SubSeq(right, 1, Len(right) - 2),
          <<SignaturePrefix>> \o <<NonHexChar>> \o Tail(right),
          <<SignaturePrefix>> \o wrong,
          <<SignaturePrefix>>,
          right,
          <<>> }

\* verifyHmacSignature(body, signature, secret)
VerifyCall ==
    /\ \E body \in {EchoDryRun, BadEnvelope} :
         \E signature \in SignatureInputs(body) :
            lib' = [op |-> "verifyHmacSignature", body |-> body,
                    signature |-> signature,
                    result |-> verifyHmacSignature(body, signature, env.HMAC_SECRET)]
    /\ UNCHANGED <<env, idempotencyCache, logs, req, nextTraceId, now>>

\* A size property as a query may carry it: absent (null here), at the limit,
\* above it, above it but not a number.
SizeValues == { JNull, JNum(100), JNum(150), JStr(<<"150">>) }

\* { size?, ...rest }
Sized(size, rest) == IF size = JNull THEN JObj(rest) ELSE JObj(<<Prop("size", size)>> \o rest)

\* The queries lintJobTreadQuery is called with: an object, an object in it,
\* an object in an array and an object in an array of arrays, each with or
\* without a size; and queries that meet the other rules.
LintInputs ==
    { Sized(a, <<Prop("jobs",
                      Sized(b, <<Prop("nodes",
                                      JArr(<<Sized(c, <<>>),
                                             JArr(<<Sized(d, <<>>)>>)>>))>>))>>) :
        a \in SizeValues, b \in SizeValues, c \in SizeValues, d \in SizeValues }
      \cup { JObj(<<Prop("contacts",
                         JObj(<<Prop("nodes",
                                     JObj(<<Prop("email", JObj(<<>>)),
                                            Prop("size", JNum(150))>>))>>))>>),
               JObj(<<Prop("costItems", JObj(<<Prop("unitPrice", JObj(<<>>))>>))>>),
               JObj(<<Prop("hasOwnProperty", JNum(1)), Prop("size", JNum(150))>>),
               JObj(<<Prop("jobs", JObj(<<Prop("size", JNum(150)),
                                          Prop("hasOwnProperty", JObj(<<>>))>>))>>) }

\* lintJobTreadQuery(pave)
LintCall ==
    /\ \E pave \in LintInputs :
         lib' = [op |-> "lintJobTreadQuery", pave |-> pave,
                 result |-> lintJobTreadQuery(pave)]
    /\ UNCHANGED <<env, idempotencyCache, logs, req, nextTraceId, now>>

\* maskSecrets(obj)
MaskSecretsCall ==
    /\ \E obj \in MaskInputs :
         lib' = [op |-> "maskSecrets", obj |-> obj, result |-> maskSecrets(obj)]
    /\ UNCHANGED <<env, idempotencyCache, logs, req, nextTraceId, now>>

\* How an attempt of a direct call fails: refused, or timed out.
CallErrors == TransportErrors \cup TimeoutErrors

\* httpRequest({ ..., maxRetries }), once the call before it has ended: the
\* first attempt is sent.  `failures`
\* counts the attempts that failed at transport level, `errors` lists what
\* they failed with and `delivered` is the response an attempt received.
HttpRequestCall ==
    /\ lib.op = "httpRequest" => lib.call.pc \in {"returned", "threw"}
    /\ \E maxRetries \in 0..MaxM :
         lib' = [op |-> "httpRequest", call |-> HttpCall(maxRetries),
                 failures |-> 0, errors |-> <<>>, delivered |-> NoResponse]
    /\ UNCHANGED <<env, idempotencyCache, logs, req, nextTraceId, now>>

\* The pending attempt of the call receives a response.
HttpCallRespond ==
    /\ lib.op = "httpRequest" /\ lib.call.pc = "http"
    /\ \E response \in DownstreamResponses :
         lib' = [lib EXCEPT !.call = httpRequestReturn(@, response),
                            !.delivered = response]
    /\ UNCHANGED <<env, idempotencyCache, logs, req, nextTraceId, now>>

\* The pending attempt of the call fails at transport level.
HttpCallFail ==
    /\ lib.op = "httpRequest" /\ lib.call.pc = "http"
    /\ \E lastError \in CallErrors :
         lib' = [lib EXCEPT !.call = httpRequestCatch(@, lastError),
                            !.failures = @ + 1, !.errors = Append(@, lastError)]
    /\ UNCHANGED <<env, idempotencyCache, logs, req, nextTraceId, now>>

\* The call's backoff timer fires.
HttpCallTimer ==
    /\ lib.op = "httpRequest" /\ lib.call.pc = "backoff"
    /\ lib' = [lib EXCEPT !.call = httpRequestRetry(@)]
    /\ UNCHANGED <<env, idempotencyCache, logs, req, nextTraceId, now>>

NextLogs ==
    \/ Tick
    \/ AddLogCall
    \/ GetLogsCall

\* Any sequence of calls of addLog and getLogs, as days pass.
SpecLogs == InitLib /\ [][NextLogs]_vars

NextLib ==
    \/ TriggerCall
    \/ VerifyCall
    \/ BrandCall
    \/ LintCall
    \/ MaskSecretsCall
    \/ HttpRequestCall
    \/ HttpCallRespond
    \/ HttpCallFail
    \/ HttpCallTimer

\* Any sequence of calls of executeMakeTrigger, verifyHmacSignature,
\* getBrandFromGatewayKey, lintJobTreadQuery, maskSecrets and httpRequest.
SpecLib == InitCalls /\ [][NextLib]_vars

\* Requests to the endpoint next to a direct call of httpRequest, when every
\* outbound attempt terminates and every timer fires.
LiveInputs ==
    { Signed(KeyDB, Envelope(JobTreadQuery, Execute, K1, QueryParams(PaveSmall))),
      Signed(KeyDB, EchoDryRun) }

InitLive ==
    /\ env = GoodEnv
    /\ idempotencyCache = <<>>
    /\ logs = <<>>
    /\ req = [r \in 1..MaxRequests |-> IdleRequest]
    /\ nextTraceId = 1
    /\ now = 0
    /\ lib = NoLibCall

NextLive ==
    \/ \E r \in 1..MaxRequests :
          \/ Receive(r, LiveInputs)
          \/ HttpRespond(r)
          \/ HttpFail(r)
          \/ BackoffElapsed(r)
    \/ HttpRequestCall
    \/ HttpCallRespond
    \/ HttpCallFail
    \/ HttpCallTimer

\* undici ends every attempt by a response or by an error, the timeouts
\* included (headersTimeout, bodyTimeout), and setTimeout fires.
Fairness ==
    /\ \A r \in 1..MaxRequests :
          /\ WF_vars(HttpRespond(r) \/ HttpFail(r))
          /\ WF_vars(BackoffElapsed(r))
    /\ WF_vars(HttpCallRespond \/ HttpCallFail)
    /\ WF_vars(HttpCallTimer)

SpecLive == InitLive /\ [][NextLive]_vars /\ Fairness

\* ------------------------------------------------------------------------
\* What a request asked for, read off its input
\* ------------------------------------------------------------------------

Arrived(r) == req[r].pc # "idle"
Replied(r) == req[r].pc = "done"

HasBody(r) == Arrived(r) /\ req[r].input.rawBody.t = "object"

\* The string under `name` in the request's envelope, <<>> when there is none.
Field(r, name) ==
    IF HasBody(r) /\ hasOwnProperty(req[r].input.rawBody, name)
                  /\ GetProp(req[r].input.rawBody, name).t = "string"
    THEN GetProp(req[r].input.rawBody, name).s
    ELSE <<>>

ActionOf(r) == Field(r, "action")
ModeOf(r) == Field(r, "mode")
KeyOf(r) == Field(r, "idempotencyKey")

\* The tenant whose gateway key the request carries, <<>> when it carries none.
TenantOf(r) ==
    IF ~Arrived(r) \/ req[r].input.gatewayKey = "" THEN <<>>
    ELSE IF req[r].input.gatewayKey = env.GATEWAY_KEY_DB THEN <<"DB">>
    ELSE IF req[r].input.gatewayKey = env.GATEWAY_KEY_CI THEN <<"CI">>
    ELSE <<>>

Triple(r) == <<ActionOf(r), TenantOf(r), KeyOf(r)>>

\* The grant key configured for a tenant.
ConfiguredGrantKey(tenant) ==
    IF tenant = <<"DB">> THEN env.JT_GRANT_KEY_DB ELSE env.JT_GRANT_KEY_CI

\* The downstream answered an attempt of r with 200: the work is done there.
Performed(r) ==
    /\ Replied(r) /\ req[r].sent > 0
    /\ req[r].status = 200 /\ req[r].body.result = Accepted

\* r is an execute request that was answered 200.
Succeeded(r) == Replied(r) /\ ModeOf(r) = Execute /\ req[r].status = 200

\* ------------------------------------------------------------------------
\* Idempotency
\* ------------------------------------------------------------------------

\* C1: for every (action, tenant, idempotencyKey) triple, the downstream
\* performs the work of execute requests carrying that triple at most once:
\* no two requests with the same triple both have their work performed.
AtMostOnce ==
    \A r1, r2 \in DOMAIN req :
        (r1 # r2 /\ Performed(r1) /\ Performed(r2)) => Triple(r1) # Triple(r2)

\* C2: once an execute request has been answered 200, every execute request
\* with the same triple that arrives later is answered with that same response
\* (same traceId, result and notes), without an executor and without an
\* outbound attempt.
ReplayReturnsFirstResponse ==
    \A r1, r2 \in DOMAIN req :
        (/\ Replied(r2) /\ r1 \in req[r2].seen
         /\ Succeeded(r1) /\ ModeOf(r2) = Execute
         /\ Triple(r1) = Triple(r2))
        => /\ req[r2].body = req[r1].body
           /\ ~req[r2].dispatched
           /\ req[r2].sent = 0


\* C3: a dry_run request never reads and never writes the idempotency cache.
\* In every step of a dry_run request the cache stays as it is, the request is
\* never answered from the cache, and when a record exists under its key the
\* request is still dispatched to its executor (unless the tenant's grant key,
\* which the handler fetches first, is not configured).
DryRunBypassesCache ==
    [][\A r \in DOMAIN req :
         (req'[r] # req[r] /\ ModeOf(r)' = DryRun)
         => /\ idempotencyCache' = idempotencyCache
            /\ ~req'[r].hit
            /\ (/\ req'[r].key \in DOMAIN idempotencyCache
                /\ ~(startsWith(ActionOf(r)', <<"jobtread.">>)
                     /\ ConfiguredGrantKey(TenantOf(r)') = ""))
               => req'[r].dispatched]_vars

\* A dry_run request was dispatched and answered although, when it arrived, an
\* execute request with the same triple had already been answered 200.
DryRunAfterStoredRecord ==
    \E r1, r2 \in DOMAIN req :
        /\ Succeeded(r1) /\ r1 \in req[r2].seen
        /\ Replied(r2) /\ ModeOf(r2) = DryRun /\ Triple(r2) = Triple(r1)
        /\ req[r2].key \in DOMAIN idempotencyCache
        /\ req[r2].dispatched /\ req[r2].status = 200

\* C4: a dry_run request, whatever its action and params, makes no outbound
\* HTTP attempt: it never waits for httpRequest and its attempt count stays 0.
DryRunSendsNothing ==
    \A r \in DOMAIN req :
        (Arrived(r) /\ ModeOf(r) = DryRun)
        => /\ req[r].sent = 0
           /\ req[r].pc = "done"
           /\ req[r].exec.call = NoCall

\* Dry runs of two actions whose execute mode calls out were both answered 200.
DryRunsAnswered ==
    \E r1, r2 \in DOMAIN req :
        /\ ModeOf(r1) = DryRun /\ ActionOf(r1) = JobTreadPushJobToQbo
        /\ ModeOf(r2) = DryRun /\ ActionOf(r2) \in {JobTreadQuery, MakeTrigger}
        /\ req[r1].dispatched /\ req[r1].status = 200
        /\ req[r2].dispatched /\ req[r2].status = 200

\* ------------------------------------------------------------------------
\* Tenants
\* ------------------------------------------------------------------------

\* The grant key in the "$" arguments of the body r sends downstream.
OutboundGrantKey(r) == GetProp(GetProp(req[r].exec.call.body, "$"), "grantKey")

\* C5: the grantKey in the body of the outbound call of a jobtread.query or
\* jobtread.pushJobToQbo request of tenant T is the grant key configured for T,
\* whatever params the caller supplied.
OutboundGrantKeyIsTenants ==
    \A r \in DOMAIN req :
        (/\ Arrived(r) /\ req[r].exec.kind = "http"
         /\ ActionOf(r) \in {JobTreadQuery, JobTreadPushJobToQbo})
        => OutboundGrantKey(r) = JStr(<<ConfiguredGrantKey(TenantOf(r))>>)

\* C6: the cache key is tenant-scoped.  A request answered from the cache gets
\* a response that a request of its own tenant, with its action and
\* idempotencyKey, produced; and two requests have the same cache key only if
\* action, tenant and idempotencyKey are all equal.
CacheKeyIsTenantScoped ==
    /\ \A r2 \in DOMAIN req :
          req[r2].hit =>
             \E r1 \in DOMAIN req :
                /\ ~req[r1].hit /\ Replied(r1) /\ req[r1].body = req[r2].body
                /\ Triple(r1) = Triple(r2)
    /\ \A r1, r2 \in DOMAIN req :
          (req[r1].key # <<>> /\ req[r1].key = req[r2].key) => Triple(r1) = Triple(r2)

\* A request of one tenant arrived after the other tenant's request with the
\* same action and idempotencyKey had been answered 200, and got its own key;
\* and a request was answered from the cache.
SameKeyStringTwoTenants ==
    \/ \E r1, r2 \in DOMAIN req :
          /\ Succeeded(r1) /\ r1 \in req[r2].seen
          /\ ModeOf(r2) = Execute /\ req[r2].key # <<>>
          /\ ActionOf(r1) = ActionOf(r2) /\ KeyOf(r1) = KeyOf(r2)
          /\ TenantOf(r1) # TenantOf(r2)
          /\ req[r2].dispatched


\* ------------------------------------------------------------------------
\* Rejections
\* ------------------------------------------------------------------------

\* The checks of the pipeline, each stated on the request's input.
BodyMissing(r) == Arrived(r) /\ req[r].input.rawBody.t = "undefined"
KeyMissing(r) == Arrived(r) /\ req[r].input.gatewayKey = ""
SignatureMissing(r) == Arrived(r) /\ req[r].input.signature = <<>>
SignatureInvalid(r) ==
    Arrived(r) /\ req[r].input.signature # Sign(req[r].input.rawBody, env.HMAC_SECRET)
KeyUnknown(r) ==
    Arrived(r) /\ req[r].input.gatewayKey \notin {env.GATEWAY_KEY_DB, env.GATEWAY_KEY_CI}
EnvelopeInvalid(r) == HasBody(r) /\ validateEnvelope(req[r].input.rawBody) # <<>>
ParamsInvalid(r) ==
    /\ HasBody(r) /\ validateEnvelope(req[r].input.rawBody) = <<>>
    /\ \/ ActionOf(r) \notin Actions
       \/ ParamsErrors(ActionOf(r), GetProp(req[r].input.rawBody, "params")) # <<>>

FailsAuthentication(r) ==
    KeyMissing(r) \/ SignatureMissing(r) \/ SignatureInvalid(r) \/ KeyUnknown(r)
FailsSchema(r) == EnvelopeInvalid(r) \/ ParamsInvalid(r)

\* C7: a request that fails authentication or schema validation leaves the
\* system unchanged: the step that handles it invokes no executor, makes no
\* outbound attempt, leaves the idempotency cache as it is and adds no audit
\* entry (so no entry with status success).
RejectionChangesNothing ==
    [][\A r \in DOMAIN req :
         (/\ req[r].pc = "idle" /\ req'[r].pc # "idle"
          /\ (FailsAuthentication(r)' \/ FailsSchema(r)'))
         => /\ req'[r].pc = "done"
            /\ ~req'[r].dispatched /\ ~req'[r].hit
            /\ req'[r].sent = 0
            /\ idempotencyCache' = idempotencyCache
            /\ logs' = logs]_vars

\* With a record in the cache and an entry in the log, a later request was
\* rejected 401 or 422.
RejectedAfterSuccess ==
    \E r1, r2 \in DOMAIN req :
        /\ Succeeded(r1) /\ r1 \in req[r2].seen
        /\ idempotencyCache # <<>> /\ logs # <<>>
        /\ Replied(r2) /\ req[r2].status \in {401, 422}
        /\ (FailsAuthentication(r2) \/ FailsSchema(r2))

\* The status the fixed order of checks gives a request: 0 when it passes them
\* all.
StatusByCheckOrder(r) ==
    IF BodyMissing(r) THEN 400
    ELSE IF FailsAuthentication(r) THEN 401
    ELSE IF FailsSchema(r) THEN 422
    ELSE 0

\* C8 as stated: a rejected request is answered with the status of its first
\* failing check (400 body; 401 gateway key, signature, HMAC, unknown key; 422
\* envelope; 422 action and params), and 500 only after these checks passed.
StatusFollowsCheckOrder ==
    \A r \in DOMAIN req :
        Replied(r) =>
            IF StatusByCheckOrder(r) # 0 THEN req[r].status = StatusByCheckOrder(r)
            ELSE req[r].status \in {200, 500}

\* The order with the two configuration checks in their places: an unset
\* HMAC_SECRET is met before the signature is verified, an unset gateway key
\* before the caller's key is looked up; both answer 500.
StatusByCheckOrderWithConfig(r) ==
    IF BodyMissing(r) THEN 400
    ELSE IF KeyMissing(r) \/ SignatureMissing(r) THEN 401
    ELSE IF env.HMAC_SECRET = "" THEN 500
    ELSE IF SignatureInvalid(r) THEN 401
    ELSE IF env.GATEWAY_KEY_DB = "" \/ env.GATEWAY_KEY_CI = "" THEN 500
    ELSE IF KeyUnknown(r) THEN 401
    ELSE IF FailsSchema(r) THEN 422
    ELSE 0

\* C8, amended: the status is that of the first failing check in the order
\* body (400), gateway key header (401), signature header (401), HMAC_SECRET
\* configured (500), HMAC signature (401), gateway keys configured (500),
\* known gateway key (401), envelope (422), action and params (422); a request
\* that passes them all is answered 200 or 500.
StatusFollowsCheckOrderWithConfig ==
    \A r \in DOMAIN req :
        Replied(r) =>
            IF StatusByCheckOrderWithConfig(r) # 0
            THEN req[r].status = StatusByCheckOrderWithConfig(r)
            ELSE req[r].status \in {200, 500}

\* Under an unset HMAC_SECRET or gateway key, one request was answered 500 by
\* the configuration check and another 401 by a check that comes before it.
ConfigurationCheckAnswered ==
    \E r1, r2 \in DOMAIN req :
        /\ Replied(r1) /\ req[r1].status = 500 /\ StatusByCheckOrderWithConfig(r1) = 500
        /\ Replied(r2) /\ req[r2].status = 401 /\ StatusByCheckOrderWithConfig(r2) = 401
        /\ FailsSchema(r1)

RECURSIVE HasLargeSize(_)
\* A numeric size above the page size limit, at any depth of v.
HasLargeSize(v) ==
    /\ IsObjectLike(v)
    /\ \/ /\ hasOwnProperty(v, "size")
          /\ GetProp(v, "size").t = "number"
          /\ GetProp(v, "size").n > PageSizeLimit
       \/ \E i \in 1..Len(Entries(v)) : HasLargeSize(Entries(v)[i].v)

\* C9: a jobtread.query request that passes authentication and the schemas,
\* in either mode, whose params.pave holds a numeric size above 100 at any
\* depth, is answered 422 with an error that lists the page-size violation.
LargePageSizeIs422 ==
    \A r \in DOMAIN req :
        (/\ Replied(r) /\ StatusByCheckOrderWithConfig(r) = 0
         /\ ActionOf(r) = JobTreadQuery
         /\ ConfiguredGrantKey(TenantOf(r)) # ""
         /\ HasLargeSize(GetProp(GetProp(req[r].input.rawBody, "params"), "pave")))
        => /\ req[r].status = 422
           /\ \E i \in 1..Len(req[r].body.error) :
                 req[r].body.error[i] = "Page size limit exceeded: "

\* C10: every response, whatever its status, carries a traceId field.
EveryResponseHasTraceId ==
    \A r \in DOMAIN req : Replied(r) => "traceId" \in DOMAIN req[r].body


\* ------------------------------------------------------------------------
\* Audit log
\* ------------------------------------------------------------------------

\* The places in the audit log of the entries of request r.
EntriesOf(r) == {i \in DOMAIN logs : logs[i].traceId = req[r].locals.traceId}

\* C11: every invocation of the pipeline appends exactly one audit entry,
\* however it ends (success, authentication or validation failure, cache hit,
\* configuration failure): a request that was replied to has one entry.
OneEntryPerInvocation ==
    \A r \in DOMAIN req : Replied(r) => Cardinality(EntriesOf(r)) = 1


\* A response body with its traceId left out.
WithoutTraceId(body) == [k \in (DOMAIN body) \ {"traceId"} |-> body[k]]

\* C16: the 500 response is generic: the bodies of two requests answered 500
\* differ in nothing but traceId, whatever the internal error messages were.
GenericFailureBody ==
    \A r, q \in DOMAIN req :
        (Replied(r) /\ Replied(q) /\ req[r].status = 500 /\ req[q].status = 500)
            => WithoutTraceId(req[r].body) = WithoutTraceId(req[q].body)


\* The cache key the handler derives for request r.
CacheKeyOf(r) == CacheKey(ActionOf(r), TenantOf(r), KeyOf(r))

\* C17: an idempotency hit short-circuits parameter validation: an
\* authenticated execute request with a valid envelope whose (action, tenant,
\* idempotencyKey) had a stored record when it arrived is answered with that
\* record, whether or not its params satisfy the action's schema.
HitSkipsParamsValidation ==
    \A r \in DOMAIN req :
        (/\ Replied(r) /\ HasBody(r)
         /\ ~FailsAuthentication(r) /\ ~EnvelopeInvalid(r)
         /\ ModeOf(r) = Execute
         /\ \E q \in req[r].seen : Succeeded(q) /\ CacheKeyOf(q) = CacheKeyOf(r))
        => /\ CacheKeyOf(r) \in DOMAIN idempotencyCache
           /\ req[r].status = 200
           /\ req[r].body = idempotencyCache[CacheKeyOf(r)]


\* httpRequest returned a response with a status outside 2xx to r's executor.
DownstreamRefused(r) ==
    /\ "status" \in DOMAIN req[r].response
    /\ (req[r].response.status < 200 \/ req[r].response.status >= 300)

\* C18: a downstream 4xx/5xx answer propagates as a failure: an execute
\* request whose outbound call returned a non-2xx status ends in a failure
\* response (not ok: true), is logged with status error, and leaves no
\* idempotency record under its key.
DownstreamErrorIsFailure ==
    \A r \in DOMAIN req :
        (Replied(r) /\ ModeOf(r) = Execute /\ DownstreamRefused(r))
        => /\ ~("ok" \in DOMAIN req[r].body /\ req[r].body.ok)
           /\ \E i \in EntriesOf(r) : logs[i].status = "error"
           /\ req[r].key \notin DOMAIN idempotencyCache


\* r passed authentication and validation and its executor failed: it threw
\* before any outbound call, or its call of httpRequest threw.
ExecutorFailed(r) ==
    /\ Replied(r) /\ req[r].dispatched
    /\ \/ req[r].exec.kind = "throw"
       \/ req[r].exec.kind = "http" /\ "status" \notin DOMAIN req[r].response

\* The message the failed executor of r threw with.
ExecutorMessage(r) ==
    IF req[r].exec.kind = "throw" THEN req[r].exec.msg
    ELSE req[r].exec.prefix
         \o HttpFailedMessage(req[r].exec.call.maxRetries,
                              CHOOSE lastError \in TransportErrors : TRUE)

\* C15: when the executor fails after authentication and validation passed,
\* the request appends exactly one audit entry, with status error and the
\* original error message, and is answered 500 with the traceId of that entry.
ExecutorFailureIsLogged ==
    \A r \in DOMAIN req :
        ExecutorFailed(r)
        => /\ Cardinality(EntriesOf(r)) = 1
           /\ \A i \in EntriesOf(r) :
                /\ logs[i].status = "error"
                /\ logs[i].error = ExecutorMessage(r)
                /\ req[r].status = 500
                /\ "traceId" \in DOMAIN req[r].body
                /\ req[r].body.traceId = logs[i].traceId


\* ------------------------------------------------------------------------
\* Redaction
\* ------------------------------------------------------------------------

\* The sensitivity markers: a field is sensitive when its name contains one
\* of them, whatever the case.
SensitivityMarkers ==
    { <<"credential">>, <<"password">>, <<"secret">>, <<"token">>, <<"key">>,
      <<"authorization">> }

NameIsSensitive(name) ==
    \E marker \in SensitivityMarkers : includes(toLowerCase(name), marker)

\* Every sensitive field of a log entry holds the redaction marker.
EntryRedacted(entry) ==
    \A name \in DOMAIN entry : NameIsSensitive(name) => entry[name] = Masked

\* C12: redaction happens at write time: whatever entry addLog was called
\* with, every stored entry, and every entry getLogs returns, has each field
\* whose name matches a sensitivity marker replaced by the redaction marker.
StoredEntriesRedacted ==
    /\ \A i \in DOMAIN logs : EntryRedacted(logs[i])
    /\ lib.op = "getLogs" => \A i \in DOMAIN lib.result : EntryRedacted(lib.result[i])

\* A value in which every object field with a sensitive name, at any depth and
\* inside arrays, holds the redaction marker.
RECURSIVE Redacted(_)
Redacted(v) ==
    IF v.t = "array" THEN \A i \in DOMAIN v.e : Redacted(v.e[i])
    ELSE IF v.t = "object"
    THEN \A i \in DOMAIN v.f :
            IF NameIsSensitive(v.f[i].k) THEN v.f[i].v = Masked ELSE Redacted(v.f[i].v)
    ELSE TRUE

\* Every scalar field of `obj` outside sensitive fields, at any depth and
\* inside arrays, is in `copy` at the same place with the same value.
RECURSIVE ScalarsKept(_, _)
ScalarsKept(obj, copy) ==
    IF obj.t = "array"
    THEN /\ copy.t = "array" /\ Len(copy.e) = Len(obj.e)
         /\ \A i \in DOMAIN obj.e : ScalarsKept(obj.e[i], copy.e[i])
    ELSE IF obj.t = "object"
    THEN /\ copy.t = "object"
         /\ \A i \in DOMAIN obj.f :
               NameIsSensitive(obj.f[i].k)
               \/ /\ hasOwnProperty(copy, obj.f[i].k)
                  /\ ScalarsKept(obj.f[i].v, GetProp(copy, obj.f[i].k))
    ELSE copy = obj

\* C13: for every input, maskSecrets returns a copy in which each object field
\* whose name contains one of the markers credential, password, secret, token,
\* key, authorization (any case), at any depth and inside arrays, holds
\* '***MASKED***', and every other scalar field keeps its value.
MaskSecretsRedactsMarkedFields ==
    lib.op = "maskSecrets"
        => Redacted(lib.result) /\ ScalarsKept(lib.obj, lib.result)


\* ------------------------------------------------------------------------
\* Retention
\* ------------------------------------------------------------------------

\* The cutoff of the latest addLog call: the time of the call minus
\* LOG_RETENTION_DAYS (default 60).
CutoffOfCall == lib.at - RetentionDays.n

AtOrAfterCutoff(entry) == entry.timestamp >= CutoffOfCall

\* C14: right after an addLog call returns, the store holds no entry strictly
\* older than the cutoff, however many consecutive stored entries were
\* expired, and holds, in order, every entry (the new one included) whose
\* timestamp is at or after the cutoff; and getLogs returns stored entries
\* only, so an entry pruned by addLog does not appear again.
RetentionAfterAddLog ==
    /\ (lib.op = "addLog" /\ ~lib.threw)
        => /\ \A i \in DOMAIN logs : logs[i].timestamp >= CutoffOfCall
           /\ logs = SelectSeq(Append(lib.before, lib.entry), AtOrAfterCutoff)
    /\ lib.op = "getLogs"
        => \A i \in DOMAIN lib.result : \E j \in DOMAIN logs : logs[j] = lib.result[i]

\* An addLog call found two consecutive expired entries and returned with
\* both gone and the new entry stored.
ConsecutiveExpiredPruned ==
    /\ lib.op = "addLog" /\ ~lib.threw
    /\ \E i \in 1..(Len(lib.before) - 1) :
          /\ lib.before[i].timestamp < CutoffOfCall
          /\ lib.before[i + 1].timestamp < CutoffOfCall
    /\ logs = <<lib.entry>>


\* ------------------------------------------------------------------------
\* Retry and backoff
\* ------------------------------------------------------------------------

\* C19: for httpRequest with maxRetries = M: it never makes more than M + 1
\* attempts; when N attempts failed at transport level and the next one got a
\* response, it returns that response after exactly N + 1 attempts, having
\* waited the backoff delays of the N failed attempts and nothing else; and it
\* gives up only when M + 1 attempts have failed.
RetryCounts ==
    lib.op = "httpRequest"
        => /\ lib.call.sent <= lib.call.maxRetries + 1
           /\ lib.call.pc = "returned"
                => /\ lib.failures <= lib.call.maxRetries
                   /\ lib.call.sent = lib.failures + 1
                   /\ lib.call.response = lib.delivered
                   /\ lib.call.waited = [k \in 1..lib.failures |-> BackoffDelay(k)]
           /\ lib.call.pc = "threw"
                => /\ lib.failures = lib.call.maxRetries + 1
                   /\ lib.call.sent = lib.call.maxRetries + 1

\* A call with maxRetries = 2 returned a response on its third attempt, after
\* waiting 1000 and 2000.
ReturnedOnLastRetry ==
    /\ lib.op = "httpRequest" /\ lib.call.pc = "returned"
    /\ lib.call.maxRetries = 2 /\ lib.failures = 2 /\ lib.call.sent = 3
    /\ lib.call.waited = <<1000, 2000>>

\* C20: httpRequest retries on transport failure only: once an attempt has
\* received a response, of any status, the call has returned that response,
\* with no attempt and no backoff delay beyond those of the failures before it.
ResponseEndsCall ==
    (lib.op = "httpRequest" /\ "status" \in DOMAIN lib.delivered)
        => /\ lib.call.pc = "returned"
           /\ lib.call.response = lib.delivered
           /\ lib.call.sent = lib.failures + 1
           /\ Len(lib.call.waited) = lib.failures

\* A call with retries left returned a 500 response from its first attempt.
ServerErrorReturned ==
    /\ lib.op = "httpRequest" /\ lib.call.pc = "returned"
    /\ lib.call.maxRetries > 0 /\ lib.call.sent = 1
    /\ "status" \in DOMAIN lib.call.response /\ lib.call.response.status = 500


\* C21: the backoff delay waited after the k-th failed attempt, k = 1 ..
\* maxRetries, is exactly 2^(k-1) seconds (1000 ms, 2000 ms, 4000 ms, ...):
\* each failure that leaves a retry is followed by its delay, and no delay is
\* waited after the final failed attempt.
BackoffDoubles ==
    lib.op = "httpRequest"
        => /\ \A k \in DOMAIN lib.call.waited : lib.call.waited[k] = (2 ^ (k - 1)) * 1000
           /\ Len(lib.call.waited)
                = IF lib.failures <= lib.call.maxRetries THEN lib.failures
                  ELSE lib.call.maxRetries

\* A call with maxRetries = 3 gave up after four failed attempts, having
\* waited 1, 2 and 4 seconds and nothing after the fourth failure.
GaveUpAfterThreeDelays ==
    /\ lib.op = "httpRequest" /\ lib.call.pc = "threw"
    /\ lib.call.maxRetries = 3 /\ lib.failures = 4
    /\ lib.call.waited = <<1000, 2000, 4000>>


\* C22: httpRequest raises an error only after exactly maxRetries + 1
\* attempts have all failed at transport level; the error it raises names the
\* attempt count maxRetries + 1 and the message of the last underlying error,
\* and until then no error, of any attempt, reaches the caller.
SingleAggregatedError ==
    lib.op = "httpRequest"
        => IF lib.call.pc = "threw"
           THEN /\ lib.failures = lib.call.maxRetries + 1
                /\ lib.call.sent = lib.call.maxRetries + 1
                /\ "status" \notin DOMAIN lib.delivered
                /\ lib.call.msg
                     = <<"HTTP request failed after ",
                         ToString(lib.call.maxRetries + 1), " attempts: ">>
                           \o lib.errors[Len(lib.errors)]
           ELSE lib.call.msg = <<>>

\* A call with maxRetries = 1 was refused, then timed out, and raised its
\* error.
ThrewAfterTwoDifferentErrors ==
    /\ lib.op = "httpRequest" /\ lib.call.pc = "threw"
    /\ lib.call.maxRetries = 1
    /\ lib.errors = << <<"connect ECONNREFUSED">>, <<"Headers Timeout Error">> >>


\* ------------------------------------------------------------------------
\* Lint
\* ------------------------------------------------------------------------

\* The number of objects in v, at any depth and inside arrays, whose size is a
\* number greater than 100.
RECURSIVE LargeSizes(_)
RECURSIVE LargeSizesIn(_)
LargeSizesIn(values) ==
    IF values = <<>> THEN 0 ELSE LargeSizes(values[1]) + LargeSizesIn(Tail(values))
LargeSizes(v) ==
    IF v.t = "array" THEN LargeSizesIn(v.e)
    ELSE IF v.t = "object"
    THEN (IF hasOwnProperty(v, "size") /\ GetProp(v, "size").t = "number"
             /\ GetProp(v, "size").n > 100
          THEN 1 ELSE 0)
         + LargeSizesIn([i \in DOMAIN v.f |-> v.f[i].v])
    ELSE 0

IsPageSizeError(error) == startsWith(error, <<"Page size limit exceeded: ">>)

\* C23: lintJobTreadQuery accumulates every violation: for any pave tree it
\* returns one page-size error for each object, at any depth and inside
\* arrays, that has a numeric size greater than 100, and valid is true exactly
\* when the error list is empty.
LintAccumulates ==
    lib.op = "lintJobTreadQuery"
        => /\ ~lib.result.threw
           /\ Len(SelectSeq(lib.result.errors, IsPageSizeError)) = LargeSizes(lib.pave)
           /\ lib.result.valid <=> lib.result.errors = <<>>


\* ------------------------------------------------------------------------
\* Log queries
\* ------------------------------------------------------------------------

\* The entry satisfies every filter that was supplied.
SatisfiesSupplied(entry, filters) ==
    /\ filters.traceId = 0 \/ entry.traceId = filters.traceId
    /\ filters.brand = <<>> \/ entry.brand = filters.brand
    /\ filters.action = <<>> \/ entry.action = filters.action
    /\ filters.status = "" \/ entry.status = filters.status

\* How many times the entry occurs in the list.
Occurrences(list, entry) == Cardinality({i \in DOMAIN list : list[i] = entry})

\* C24: getLogs(filters) returns exactly the stored entries that satisfy every
\* supplied filter among traceId, brand, action and status, each as often as
\* it is stored, newest first by timestamp, and leaves the stored list as it
\* was, in content and order.
GetLogsFiltersAndSorts ==
    lib.op = "getLogs"
        => /\ \A i \in DOMAIN lib.before :
                Occurrences(lib.result, lib.before[i])
                  = IF SatisfiesSupplied(lib.before[i], lib.filters)
                    THEN Occurrences(lib.before, lib.before[i]) ELSE 0
           /\ \A i \in DOMAIN lib.result :
                Occurrences(lib.before, lib.result[i]) > 0
           /\ \A i, j \in DOMAIN lib.result :
                i < j => lib.result[i].timestamp >= lib.result[j].timestamp
           /\ logs = lib.before

\* getLogs was called with a filter that some stored entry fails, on a list
\* stored oldest first, and returned two entries of different days.
FilteredOutOfOrderLog ==
    /\ lib.op = "getLogs" /\ lib.filters # NoFilters
    /\ \E i \in DOMAIN lib.before : ~SatisfiesSupplied(lib.before[i], lib.filters)
    /\ \E i, j \in DOMAIN lib.before :
          /\ i < j /\ lib.before[i].timestamp < lib.before[j].timestamp
          /\ SatisfiesSupplied(lib.before[i], lib.filters)
          /\ SatisfiesSupplied(lib.before[j], lib.filters)
    /\ Len(lib.result) = 2
    /\ lib.result[1].timestamp > lib.result[2].timestamp


\* ------------------------------------------------------------------------
\* Tenant resolution
\* ------------------------------------------------------------------------

SignatureFailsClosed ==
    lib.op = "verifyHmacSignature"
        => (lib.result
              <=> lib.signature
                    = <<SignaturePrefix>> \o HexDigest(HmacSha256(env.HMAC_SECRET, lib.body)))


\* ------------------------------------------------------------------------
\* Webhook allowlist
\* ------------------------------------------------------------------------

\* The host of the URL is an entry of ALLOW_HOSTS or a subdomain of one.
HostIsListed(url) ==
    /\ UrlParses(url)
    /\ \E i \in DOMAIN env.ALLOW_HOSTS :
          \/ Hostname(url) = env.ALLOW_HOSTS[i]
          \/ /\ Len(Hostname(url)) > Len(env.ALLOW_HOSTS[i])
             /\ endsWith(Hostname(url), env.ALLOW_HOSTS[i])

\* C27: executeMakeTrigger sends an outbound request (execute) or reports the
\* URL as validated (dry_run) only when the host of params.webhookUrl is an
\* entry of ALLOW_HOSTS or a subdomain of one; for every other host, in both
\* modes, it throws before any outbound call.
OnlyListedHostsTriggered ==
    lib.op = "executeMakeTrigger"
        => IF HostIsListed(lib.url)
           THEN lib.result.kind = (IF lib.mode = Execute THEN "http" ELSE "return")
           ELSE lib.result.kind = "throw"


\* ------------------------------------------------------------------------
\* Trace identifiers and the audit log
\* ------------------------------------------------------------------------

\* C28: for every response that carries a traceId the audit log holds an entry
\* with that traceId, 500 responses for failures before the tenant or the
\* envelope is resolved included.
ReturnedTraceIdIsLogged ==
    \A r \in DOMAIN req :
        (Replied(r) /\ "traceId" \in DOMAIN req[r].body)
            => \E i \in DOMAIN logs : logs[i].traceId = req[r].body.traceId


\* ------------------------------------------------------------------------
\* Concurrency of the retry loop
\* ------------------------------------------------------------------------

\* The step request r is waiting for can be taken now.
CanStep(r) ==
    /\ req[r].pc = "idle" /\ (r > 1 => req[r - 1].pc # "idle")
          => ENABLED Receive(r, Inputs)
    /\ req[r].pc = "http" => (ENABLED HttpRespond(r)) /\ (ENABLED HttpFail(r))
    /\ req[r].pc = "backoff" => ENABLED BackoffElapsed(r)

\* C29: the retry backoff is request-local: while a request waits in a backoff
\* delay every other request can take its next step, whichever it is (arrive,
\* have its attempt answered or failed, start its next attempt), so that it
\* can go through the whole pipeline to its response.
BackoffIsRequestLocal ==
    \A q \in DOMAIN req : \A r \in DOMAIN req \ {q} :
        req[q].pc = "backoff" => CanStep(r)

\* A request that arrived after another one was answered, after an outbound
\* attempt of its own, while the other one waits in its backoff delay.
AnsweredWhileOtherWaits ==
    /\ req[1].pc = "backoff"
    /\ req[2].pc = "done"
    /\ req[2].sent >= 1
    /\ req[2].status = 200


\* ------------------------------------------------------------------------
\* Termination
\* ------------------------------------------------------------------------

CallEnded == lib.op = "httpRequest" /\ lib.call.pc \in {"returned", "threw"}

\* C30: when every outbound attempt terminates, every request that arrived is
\* eventually replied to, a reply is never followed by another one for the
\* same request, and a call of httpRequest ends whatever its maxRetries.
EveryRequestIsAnsweredOnce ==
    /\ \A r \in 1..MaxRequests : Arrived(r) ~> Replied(r)
    /\ (lib.op = "httpRequest") ~> CallEnded
    /\ [][\A r \in 1..MaxRequests : Replied(r) => req'[r] = req[r]]_vars

\* A request was replied to after its call of httpRequest used every retry,
\* and a direct call with the largest maxRetries gave up.
AnsweredAfterEveryRetry ==
    /\ \E r \in 1..MaxRequests :
          Replied(r) /\ req[r].sent = MaxRetries + 1 /\ req[r].attempt = MaxRetries
    /\ lib.op = "httpRequest" /\ lib.call.maxRetries = MaxM /\ lib.call.pc = "threw"


\* ------------------------------------------------------------------------
\* The idempotency cache
\* ------------------------------------------------------------------------

\* C31: an idempotency record is written once: in every step, every record of
\* the cache is still there afterwards, with the same response.
RecordNeverChanges ==
    [][\A k \in DOMAIN idempotencyCache :
          /\ k \in DOMAIN idempotencyCache'
          /\ idempotencyCache'[k] = idempotencyCache[k]]_vars


\* r ran its executor to a successful end in execute mode and was answered
\* with the response it built.
ProducedBy(r, k, response) ==
    /\ Replied(r) /\ req[r].dispatched /\ ~req[r].hit
    /\ ModeOf(r) = Execute /\ req[r].status = 200
    /\ (req[r].exec.kind = "return" \/ req[r].response # NoResponse)
    /\ CacheKeyOf(r) = k
    /\ req[r].body = response

IsSuccessResponse(response) ==
    /\ DOMAIN response = {"ok", "traceId", "result", "notes"}
    /\ response.ok = TRUE
    /\ response.traceId > 0

\* C32: every value held in the idempotency cache is a complete success
\* response produced by a completed executor invocation of an execute request
\* with the same (action, tenant, idempotencyKey), and so is every response
\* returned from the cache.
CacheHoldsSuccessResponses ==
    /\ \A k \in DOMAIN idempotencyCache :
          /\ IsSuccessResponse(idempotencyCache[k])
          /\ \E r \in DOMAIN req : ProducedBy(r, k, idempotencyCache[k])
    /\ \A r \in DOMAIN req :
          (Replied(r) /\ req[r].hit)
              => /\ IsSuccessResponse(req[r].body)
                 /\ \E q \in DOMAIN req : ProducedBy(q, CacheKeyOf(r), req[r].body)

\* An execute request stored its response and a replay was answered with it.
HitAfterStore ==
    /\ CacheKeyOf(1) \in DOMAIN idempotencyCache
    /\ ProducedBy(1, CacheKeyOf(1), idempotencyCache[CacheKeyOf(1)])
    /\ req[2].pc = "done" /\ req[2].hit
    /\ req[2].body = req[1].body


\* r is an execute request that ran its executor and was answered 500.
FailedExecute(r) ==
    /\ Replied(r) /\ ModeOf(r) = Execute /\ req[r].dispatched /\ req[r].status = 500

\* C33: a failed execute request stores nothing: the record under its key, if
\* any, is the response of another request, and an execute request with the
\* same (action, tenant, idempotencyKey) that arrives later and passes the
\* checks before the cache lookup runs the executor again, unless another
\* request's record answers it.
FailureStoresNothing ==
    \A r1 \in DOMAIN req :
        FailedExecute(r1)
        => /\ CacheKeyOf(r1) \in DOMAIN idempotencyCache
                => \E q \in DOMAIN req \ {r1} :
                       ProducedBy(q, CacheKeyOf(r1), idempotencyCache[CacheKeyOf(r1)])
           /\ \A r2 \in DOMAIN req :
                 (/\ Arrived(r2) /\ r1 \in req[r2].seen
                  /\ ModeOf(r2) = Execute /\ Triple(r2) = Triple(r1)
                  /\ req[r2].status \notin {400, 401, 422})
                 => /\ req[r2].hit \/ req[r2].dispatched
                    /\ req[r2].hit
                         => \E q \in DOMAIN req \ {r1} : req[q].body = req[r2].body

\* An execute request failed, and the same request sent again ran its
\* executor and succeeded.
RetriedAfterFailure ==
    /\ FailedExecute(1)
    /\ 1 \in req[2].seen /\ Triple(2) = Triple(1) /\ ModeOf(2) = Execute
    /\ req[2].dispatched /\ Succeeded(2)


\* The audit entry of the successful execute run that produced `response`
\* for tenant `brand` and action `action`.
IsEntryOf(entry, response, brand, action) ==
    /\ entry.traceId = response.traceId
    /\ entry.status = "success" /\ entry.mode = Execute
    /\ entry.brand = brand /\ entry.action = action

\* C34: the audit append precedes the cache store: for every record of the
\* cache the audit log holds the success entry of the execute run that
\* produced it (same traceId, tenant and action), also when the append itself
\* fails, in which case nothing is stored.
AppendPrecedesStore ==
    \A k \in DOMAIN idempotencyCache :
        \E r \in DOMAIN req :
            /\ ProducedBy(r, k, idempotencyCache[k])
            /\ \E i \in DOMAIN logs :
                   IsEntryOf(logs[i], idempotencyCache[k], TenantOf(r), ActionOf(r))

\* Two records are stored and the log holds both runs' entries.
TwoRecordsLogged ==
    /\ Cardinality(DOMAIN idempotencyCache) = 2
    /\ Len(logs) >= 2
    /\ \A r \in DOMAIN req : Succeeded(r) /\ req[r].dispatched


\* C35: each request appends at most one audit entry and each request that is
\* not answered from the cache mints its own traceId: no two entries of the
\* audit log share a traceId.
TraceIdsAreUnique ==
    \A i, j \in DOMAIN logs : i # j => logs[i].traceId # logs[j].traceId


\* The params of the request's envelope.
ParamsOf(r) == GetProp(req[r].input.rawBody, "params")

\* q stored a response under r's triple before r arrived, with other params.
StoredWithOtherParams(q, r) ==
    /\ q \in req[r].seen /\ Succeeded(q) /\ req[q].dispatched
    /\ Triple(q) = Triple(r)
    /\ ParamsOf(q) # ParamsOf(r)

\* C36: the cache key does not include params: an execute request that passes
\* the checks before the lookup, and whose (action, tenant, idempotencyKey) has
\* a record stored by a request with other params, is answered with the
\* stored response of that earlier request, and its own params reach no
\* executor.
OtherParamsReturnStoredResponse ==
    \A r \in DOMAIN req :
        (/\ Replied(r) /\ ModeOf(r) = Execute
         /\ req[r].status \notin {400, 401, 422}
         /\ \E q \in DOMAIN req : StoredWithOtherParams(q, r))
        => /\ req[r].hit /\ ~req[r].dispatched /\ req[r].sent = 0
           /\ \E q \in DOMAIN req :
                 /\ q \in req[r].seen /\ Succeeded(q) /\ req[q].dispatched
                 /\ Triple(q) = Triple(r)
                 /\ req[r].body = req[q].body

\* Job j1 was pushed under key k1; the request to push job j2 under the same
\* key was answered with j1's response.
OtherJobAnsweredFromCache ==
    /\ StoredWithOtherParams(1, 2)
    /\ ActionOf(2) = JobTreadPushJobToQbo
    /\ Replied(2) /\ req[2].hit /\ req[2].body = req[1].body


\* The executor of r returned successfully: at once, or after httpRequest
\* returned a response to it.
ExecutorReturned(r) ==
    /\ req[r].dispatched
    /\ req[r].exec.kind = "return" \/ req[r].response # NoResponse

\* C37: once the executor of an execute request has returned successfully, no
\* later step of the request fails: the request is answered 200 with ok true
\* and that response is stored under its key, whatever LOG_RETENTION_DAYS is.
NoFailureAfterExecutor ==
    \A r \in DOMAIN req :
        (Replied(r) /\ ModeOf(r) = Execute /\ ExecutorReturned(r))
        => /\ req[r].status = 200
           /\ "ok" \in DOMAIN req[r].body /\ req[r].body.ok = TRUE
           /\ CacheKeyOf(r) \in DOMAIN idempotencyCache


\* ------------------------------------------------------------------------
\* Side effects and retries
\* ------------------------------------------------------------------------

SideEffecting == {JobTreadPushJobToQbo, MakeTrigger}

\* C38: within one execute request of a side-effecting action the downstream
\* receives the side-effecting request at most once, also when an attempt
\* fails after the request was delivered and httpRequest retries.
DownstreamReceivesAtMostOnce ==
    \A r \in DOMAIN req :
        (Arrived(r) /\ ModeOf(r) = Execute /\ ActionOf(r) \in SideEffecting)
            => req[r].received <= 1


\* ------------------------------------------------------------------------
\* Where pruning happens
\* ------------------------------------------------------------------------

\* The entry is older than the retention horizon at the time of the latest
\* call.
Expired(entry) == ~RetentionDays.nan /\ entry.timestamp < CutoffOfCall

\* C39: pruning happens only inside addLog: a step that changes the stored
\* list is an addLog call on that list, getLogs leaves the list as it found
\* it, and getLogs without filters returns every stored entry, the entries
\* older than the retention horizon included.
PruningOnlyInAddLog ==
    /\ [][logs' # logs => (lib'.op = "addLog" /\ lib'.before = logs)]_vars
    /\ [](lib.op = "getLogs"
            => /\ logs = lib.before
               /\ lib.filters = NoFilters
                    => \A i \in DOMAIN logs :
                           Occurrences(lib.result, logs[i]) = Occurrences(logs, logs[i]))

\* getLogs returned an entry that was older than the retention horizon when
\* it was called.
ExpiredEntryReturned ==
    /\ lib.op = "getLogs"
    /\ \E i \in DOMAIN lib.result : Expired(lib.result[i])
    /\ \E i \in DOMAIN logs : Expired(logs[i])

=============================================================================
